---- MODULE Spec2Model ----
(***************************************************************************)
(* Model of the content moderation service in                              *)
(* src/illicit_detection/nlp_classifier: API-key admission and daily       *)
(* quota (models.py APIKey, api_views.py authenticate_api_key), monthly    *)
(* usage metering (api_views.py track_api_usage, models.py BillingRecord), *)
(* submission creation (api_views.py, views.py) and the review lifecycle   *)
(* (views.py review_content, models.py AdminReview.save).                  *)
(*                                                                         *)
(* The database is the shared state.  A request handler works on the       *)
(* in-memory copy of a row it loaded (Django model instance) and save()    *)
(* writes every field of that copy back; no handler of this repository     *)
(* opens a transaction or locks a row, so every query is its own step.     *)
(***************************************************************************)
EXTENDS Integers, Sequences, FiniteSets, TLC

(***************************************************************************)
(* Bounds of the model.                                                    *)
(***************************************************************************)
\* Requests presenting the credential on one calendar day.
MaxAttempts == 52
\* Calendar days after the credential's creation day.
MaxDay == 1
\* track_api_usage calls in one calendar month.
MaxMetered == 52
\* Calendar months after the first.
MaxMonth == 1
\* Submissions created.
MaxSubs == 1
\* Frames of an uploaded video.
MaxFrames == 2
\* The longest clip handed to analyze_video on its own, in frames.
MaxClip == 3
\* The most Payment rows, and the most Notification rows the payment views
\* leave.
MaxPayments == 1
MaxReceipts == 2
\* The most detections the detector reports on an image classified on its
\* own.
MaxDetections == 2

(***************************************************************************)
(* Program constants.                                                      *)
(***************************************************************************)
\* models.py APIKey.TIER_LIMITS
TIER_LIMITS == [free |-> 50, basic |-> 1000, premium |-> 10000]
\* api_views.py track_api_usage: "if billing_record.free_requests_used < 50"
FreeAllowance == 50
\* models.py BillingRecord.cost_per_request, default 0.01 with four decimal
\* places.  Money is counted in units of 0.0001 dollar.
CostPerRequest == 100
\* models.py BillingRecord.amount_charged has two decimal places: the unit
\* of a stored amount is 0.01 dollar, 100 money units.
Cent == 100

\* The users: KeyOwner owns the credential.
Users == {"alice", "bob"}
KeyOwner == "alice"

\* The administrators whose review_content requests run concurrently.
Reviewers == {"r1", "r2"}

\* The concurrent API clients presenting the credential.
Clients == {"c1", "c2"}

\* A handler's local variable that holds no row (None, or out of scope).
NoRow == [none |-> TRUE]

VARIABLES
    today,        \* date.today(): index of the current calendar day
    key,          \* the APIKey row in the database
    pc,           \* per client: position inside authenticate_api_key
    snap,         \* per client: key_obj, the in-memory copy of the row
    outcome,      \* what the request that finished last returned
    attempts,     \* requests with a valid key begun on the current day
    admitted,     \* requests admitted (key_obj returned) on the current day
    refused,      \* days on which a request met the rate-limit error
    month,        \* datetime.now(): index of the current (year, month)
    billing,      \* the KeyOwner's BillingRecord row of each month, or NoRow
    metered,      \* track_api_usage calls made in the current month
    notifications,\* the Notification rows, oldest first
    subs,         \* the ContentSubmission rows; a row's id is its index
    reviews,      \* the AdminReview rows; a row's pk is its index
    rpc,          \* per reviewer: position inside review_content
    rloc,         \* per reviewer: the local variables of review_content
    reply,        \* what the request handled last did and what it returned
    call,         \* the call followed on its own: arguments and return value
    payments,     \* the Payment rows: the tier paid for and the status
    second_key    \* a second APIKey row of the KeyOwner, NoRow before it exists

admitVars == <<today, key, pc, snap, outcome, attempts, admitted, refused>>
meterVars == <<month, billing, metered>>
lifeVars == <<subs, reviews, rpc, rloc>>
vars == <<today, key, pc, snap, outcome, attempts, admitted, refused,
          month, billing, metered, notifications, subs, reviews, rpc, rloc,
          reply, call, payments, second_key>>

(***************************************************************************)
(* APIKey (models.py 129-210)                                              *)
(***************************************************************************)
\* A save that stores the row as it was handed over.
APIKey_save_as_given(k) == k
\* APIKey.save: the daily limit is re-derived from the tier on every save.
APIKey_save(k) ==
    IF k.tier \in DOMAIN TIER_LIMITS
    THEN [k EXCEPT !.daily_limit = TIER_LIMITS[k.tier]]
    ELSE k

\* my_api_keys: APIKey.objects.create(tier='free', daily_limit=50) on day d;
\* requests_today defaults to 0, last_reset is auto_now_add, is_active True,
\* webhook_url null (FALSE: none configured), subscription_status inactive.
NewAPIKey(d) ==
    APIKey_save([tier |-> "free", daily_limit |-> 50, requests_today |-> 0,
                 last_reset |-> d, is_active |-> TRUE, webhook_url |-> FALSE,
                 subscription_status |-> "inactive"])

\* my_api_keys (views.py 467-489): a POST with a name creates one more
\* key of the logged-in user, here the KeyOwner's second.
my_api_keys ==
    /\ second_key = NoRow
    /\ second_key' = NewAPIKey(today)
    /\ UNCHANGED <<payments, call, reply, admitVars, meterVars, notifications,
                   lifeVars>>

\* A check that looks at the reset date only.
can_make_request_by_date(k, d) ==
    IF k.last_reset # d THEN TRUE ELSE k.requests_today < TIER_LIMITS["premium"]
\* A boundary check that lets the counter reach the limit and pass once more.
can_make_request_inclusive(k, d) ==
    IF k.last_reset # d THEN TRUE ELSE k.requests_today <= k.daily_limit

\* APIKey.can_make_request, evaluated on the copy k on day d.
can_make_request(k, d) ==
    IF k.last_reset # d
    THEN TRUE
    ELSE k.requests_today < k.daily_limit

\* An increment that moves the reset date and keeps the count of the day
\* before.
increment_usage_no_reset(k, d) ==
    APIKey_save([k EXCEPT !.requests_today = @ + 1, !.last_reset = d])
\* APIKey.increment_usage on the copy k on day d: the row that save() writes.
increment_usage(k, d) ==
    LET r == IF k.last_reset # d
             THEN [k EXCEPT !.requests_today = 0, !.last_reset = d]
             ELSE k
    IN  APIKey_save([r EXCEPT !.requests_today = @ + 1])

(***************************************************************************)
(* authenticate_api_key (api_views.py 30-47), one query per step           *)
(***************************************************************************)
\* APIKey.objects.get(key=api_key, is_active=True)
AuthLoad(c) ==
    /\ pc[c] = "idle"
    /\ attempts < MaxAttempts
    /\ attempts' = attempts + 1
    /\ IF key.is_active
       THEN /\ snap' = [snap EXCEPT ![c] = key]
            /\ pc' = [pc EXCEPT ![c] = "loaded"]
            /\ UNCHANGED outcome
       ELSE /\ outcome' = "invalid"
            /\ UNCHANGED <<snap, pc>>
    /\ UNCHANGED <<second_key, payments, call, reply, today, key, admitted, refused, meterVars, notifications, lifeVars>>

\* if not key_obj.can_make_request(): return the rate-limit error
AuthCheck(c) ==
    /\ pc[c] = "loaded"
    /\ IF can_make_request(snap[c], today)
       THEN /\ pc' = [pc EXCEPT ![c] = "checked"]
            /\ UNCHANGED <<outcome, snap, refused>>
       ELSE /\ pc' = [pc EXCEPT ![c] = "idle"]
            /\ outcome' = "quota"
            /\ snap' = [snap EXCEPT ![c] = NoRow]
            /\ refused' = refused \cup {today}
    /\ UNCHANGED <<second_key, payments, call, reply, today, key, attempts, admitted, meterVars, notifications, lifeVars>>

\* key_obj.increment_usage(); return key_obj
AuthIncrement(c) ==
    /\ pc[c] = "checked"
    /\ key' = increment_usage(snap[c], today)
    /\ snap' = [snap EXCEPT ![c] = NoRow]
    /\ pc' = [pc EXCEPT ![c] = "idle"]
    /\ outcome' = "admitted"
    /\ admitted' = admitted + 1
    /\ UNCHANGED <<second_key, payments, call, reply, today, attempts, refused, meterVars, notifications, lifeVars>>

\* An authentication that counts the request it refuses for quota.
authenticate_api_key_counting(k, presented, d) ==
    IF presented = "missing"
    THEN [key |-> k, outcome |-> "missing"]
    ELSE IF presented = "unknown" \/ ~k.is_active
    THEN [key |-> k, outcome |-> "invalid"]
    ELSE IF ~can_make_request(k, d)
    THEN [key |-> increment_usage(k, d), outcome |-> "quota"]
    ELSE [key |-> increment_usage(k, d), outcome |-> "admitted"]

\* authenticate_api_key as one call on the row k: the row it leaves in the
\* database and what it returns.  presented is the X-API-Key header.
authenticate_api_key(k, presented, d) ==
    IF presented = "missing"
    THEN [key |-> k, outcome |-> "missing"]
    ELSE IF presented = "unknown" \/ ~k.is_active
    THEN [key |-> k, outcome |-> "invalid"]
    ELSE IF ~can_make_request(k, d)
    THEN [key |-> k, outcome |-> "quota"]
    ELSE [key |-> increment_usage(k, d), outcome |-> "admitted"]

\* One request handled from start to end with no other request in flight.
Authenticate ==
    /\ \A c \in Clients : pc[c] = "idle"
    /\ \E presented \in {"missing", "unknown", "valid"} :
         LET r == authenticate_api_key(key, presented, today)
         IN  /\ presented = "valid" => attempts < MaxAttempts
             /\ key' = r.key
             /\ outcome' = r.outcome
             /\ attempts' = IF presented = "valid" THEN attempts + 1 ELSE attempts
             /\ admitted' = IF r.outcome = "admitted" THEN admitted + 1 ELSE admitted
             /\ refused' = IF r.outcome = "quota" THEN refused \cup {today} ELSE refused
    /\ UNCHANGED <<second_key, payments, call, reply, today, pc, snap, meterVars, notifications, lifeVars>>

\* Midnight: date.today() changes; requests in flight keep running.
NextDay ==
    /\ today < MaxDay
    /\ today' = today + 1
    /\ attempts' = 0
    /\ admitted' = 0
    /\ UNCHANGED <<second_key, payments, call, reply, key, pc, snap, outcome, refused, meterVars, notifications, lifeVars>>

(***************************************************************************)
(* BillingRecord (models.py 245-281) and track_api_usage                   *)
(* (api_views.py 66-116)                                                   *)
(***************************************************************************)
\* A DecimalField with two decimal places stores the amount quantized to
\* cents, rounding half to even.
Quantize2(x) ==
    LET q == x \div Cent
        r == x % Cent
    IN  IF 2 * r < Cent THEN q * Cent
        ELSE IF 2 * r > Cent THEN (q + 1) * Cent
        ELSE IF q % 2 = 0 THEN q * Cent
        ELSE (q + 1) * Cent

\* BillingRecord.save: the row as the database stores it.
BillingRecord_save(b) == [b EXCEPT !.amount_charged = Quantize2(@)]

\* The defaults of get_or_create in track_api_usage and of the model.
NewBillingRecord ==
    [free_requests_used |-> 0, paid_requests |-> 0, total_requests |-> 0,
     amount_charged |-> 0, cost_per_request |-> CostPerRequest]

\* A charge that counts the latest paid request alone.
calculate_charges_latest(b) ==
    IF b.paid_requests > 0
    THEN [b EXCEPT !.amount_charged = b.cost_per_request]
    ELSE [b EXCEPT !.amount_charged = 0]

\* BillingRecord.calculate_charges on the copy b, before its save().
calculate_charges(b) ==
    IF b.paid_requests > 0
    THEN [b EXCEPT !.amount_charged = b.paid_requests * b.cost_per_request]
    ELSE [b EXCEPT !.amount_charged = 0]

\* A free allowance that ends one request sooner.
IsPaidRequest_early(b) == ~(b.free_requests_used < FreeAllowance - 1)

\* A free allowance that lasts one request longer.
IsPaidRequest_late(b) == ~(b.free_requests_used <= FreeAllowance)

\* track_api_usage: whether this call is charged (the else branch).
IsPaidRequest(b) == ~(b.free_requests_used < FreeAllowance)

\* Counting that leaves a paid request out of the total.
CountRequest_uncounted(b) ==
    IF ~IsPaidRequest(b)
    THEN [b EXCEPT !.total_requests = @ + 1, !.free_requests_used = @ + 1]
    ELSE calculate_charges([b EXCEPT !.paid_requests = @ + 1])

\* track_api_usage lines 93-103 on the copy b that get_or_create returned.
CountRequest(b) ==
    LET t == [b EXCEPT !.total_requests = @ + 1]
    IN  IF ~IsPaidRequest(t)
        THEN [t EXCEPT !.free_requests_used = @ + 1]
        ELSE calculate_charges([t EXCEPT !.paid_requests = @ + 1])

\* track_api_usage lines 105-112: the billing Notification of the first paid
\* request, decided on the copy after CountRequest.
SendsBillingNotice(b, after) == IsPaidRequest(b) /\ after.paid_requests = 1

\* A Notification row: its addressee, its type and the id of the related
\* submission (0 for None).
BillingNotice(u) ==
    [user |-> u, notification_type |-> "billing", related_submission |-> 0]

\* track_api_usage as one call for the key's owner in month m: the
\* BillingRecord rows and the Notification rows it leaves.
track_api_usage(rows, notes, m) ==
    LET b == IF rows[m] = NoRow THEN NewBillingRecord ELSE rows[m]
        after == CountRequest(b)
    IN  [billing |-> [rows EXCEPT ![m] = BillingRecord_save(after)],
         notifications |-> IF SendsBillingNotice(b, after)
                           THEN Append(notes, BillingNotice(KeyOwner))
                           ELSE notes]

\* One metering call handled from start to end.
Track ==
    /\ metered < MaxMetered
    /\ LET r == track_api_usage(billing, notifications, month)
       IN  /\ billing' = r.billing
           /\ notifications' = r.notifications
    /\ metered' = metered + 1
    /\ UNCHANGED <<second_key, payments, call, reply, month, admitVars, lifeVars>>

\* The first day of the next month.
NextMonth ==
    /\ month < MaxMonth
    /\ month' = month + 1
    /\ metered' = 0
    /\ today' = today + 1
    /\ attempts' = 0
    /\ admitted' = 0
    /\ UNCHANGED <<second_key, payments, call, reply, key, pc, snap, outcome, refused, billing, notifications,
                   lifeVars>>

MeterInit ==
    /\ month = 0
    /\ billing = [m \in 0..MaxMonth |-> NoRow]
    /\ metered = 0
    /\ notifications = <<>>

AdmitInit ==
    /\ today = 0
    /\ key = NewAPIKey(0)
    /\ pc = [c \in Clients |-> "idle"]
    /\ snap = [c \in Clients |-> NoRow]
    /\ outcome = "none"
    /\ attempts = 0
    /\ admitted = 0
    /\ refused = {}

(***************************************************************************)
(* track_api_usage (api_views.py 66-116), one query per step.  snap[c] is  *)
(* billing_record, the copy the call works on, with the period that        *)
(* datetime.now() gave when the call began.                                *)
(***************************************************************************)
\* BillingRecord.objects.get_or_create(user, year, month, defaults): the row
\* of the period, inserted with the defaults when there is none;
\* unique_together keeps it the only one.
MeterLoad(c) ==
    /\ pc[c] = "idle"
    /\ metered < MaxMetered
    /\ metered' = metered + 1
    /\ LET row == IF billing[month] = NoRow
                  THEN BillingRecord_save(NewBillingRecord)
                  ELSE billing[month]
       IN  /\ billing' = [billing EXCEPT ![month] = row]
           /\ snap' = [snap EXCEPT ![c] =
                          [billing_record |-> row, period |-> month]]
    /\ pc' = [pc EXCEPT ![c] = "metering"]
    /\ UNCHANGED <<second_key, payments, call, reply, today, key, outcome, attempts, admitted, refused, month,
                   notifications, lifeVars>>

\* Lines 93-103 on the copy: a free request goes straight to the final
\* billing_record.save(); a paid one is saved by calculate_charges first.
MeterCount(c) ==
    /\ pc[c] = "metering"
    /\ LET b == snap[c].billing_record
           after == CountRequest(b)
       IN  /\ billing' = [billing EXCEPT ![snap[c].period] =
                             BillingRecord_save(after)]
           /\ IF ~IsPaidRequest(b)
              THEN /\ pc' = [pc EXCEPT ![c] = "idle"]
                   /\ snap' = [snap EXCEPT ![c] = NoRow]
              ELSE /\ pc' = [pc EXCEPT ![c] =
                               IF SendsBillingNotice(b, after)
                               THEN "billing_notice" ELSE "billing_save"]
                   /\ snap' = [snap EXCEPT ![c].billing_record = after]
    /\ UNCHANGED <<second_key, payments, call, reply, today, key, outcome, attempts, admitted, refused, month,
                   metered, notifications, lifeVars>>

\* Lines 106-112: Notification.objects.create(...) of the first paid request.
MeterNotify(c) ==
    /\ pc[c] = "billing_notice"
    /\ notifications' = Append(notifications, BillingNotice(KeyOwner))
    /\ pc' = [pc EXCEPT ![c] = "billing_save"]
    /\ UNCHANGED <<second_key, payments, call, reply, today, key, snap, outcome, attempts, admitted, refused,
                   meterVars, lifeVars>>

\* Line 114: billing_record.save() of a paid request.
MeterSave(c) ==
    /\ pc[c] = "billing_save"
    /\ billing' = [billing EXCEPT ![snap[c].period] =
                      BillingRecord_save(snap[c].billing_record)]
    /\ pc' = [pc EXCEPT ![c] = "idle"]
    /\ snap' = [snap EXCEPT ![c] = NoRow]
    /\ UNCHANGED <<second_key, payments, call, reply, today, key, outcome, attempts, admitted, refused, month,
                   metered, notifications, lifeVars>>

(***************************************************************************)
(* The classifiers (classifier.py).  The models themselves are inputs: a   *)
(* text comes with its seven scores, an image with its NudeNet detections  *)
(* and its predicted label.                                                *)
(***************************************************************************)
UpperCase == <<"A", "B", "C", "D", "E", "F", "G", "H", "I", "J", "K", "L", "M",
               "N", "O", "P", "Q", "R", "S", "T", "U", "V", "W", "X", "Y", "Z">>
LowerCase == <<"a", "b", "c", "d", "e", "f", "g", "h", "i", "j", "k", "l", "m",
               "n", "o", "p", "q", "r", "s", "t", "u", "v", "w", "x", "y", "z">>

\* str.lower() on a text, a sequence of characters.
LowerChar(ch) ==
    IF \E i \in 1..Len(UpperCase) : UpperCase[i] = ch
    THEN LowerCase[CHOOSE i \in 1..Len(UpperCase) : UpperCase[i] = ch]
    ELSE ch
lower(text) == [i \in 1..Len(text) |-> LowerChar(text[i])]

\* Python's "word in text" on strings: word is a substring of text.
Contains(text, word) ==
    \E i \in 1..(Len(text) - Len(word) + 1) :
        SubSeq(text, i, i + Len(word) - 1) = word

\* map_detoxify_to_category: terrorism_keywords
terrorism_keywords ==
    { <<"b", "o", "m", "b">>,
      <<"j", "i", "h", "a", "d">>,
      <<"t", "e", "r", "r", "o", "r">>,
      <<"a", "t", "t", "a", "c", "k">>,
      <<"i", "s", "l", "a", "m", "i", "c", " ", "s", "t", "a", "t", "e">> }

\* A table whose Violence rule reads the text too.
map_detoxify_to_category_by_text(scores, text) ==
    (IF \/ scores["Threat"] > 6000
        \/ (scores["Toxicity"] > 7000 /\ scores["Severe Toxicity"] > 4000)
        \/ \E word \in terrorism_keywords : Contains(lower(text), word)
     THEN {"Violence"} ELSE {})
    \cup
    (IF /\ scores["Threat"] > 7000 /\ scores["Identity Attack"] > 4000
        /\ \E word \in terrorism_keywords : Contains(lower(text), word)
     THEN {"Terrorism"} ELSE {})
    \cup
    (IF /\ (scores["Insult"] > 5000 \/ scores["Identity Attack"] > 5000)
        /\ (scores["Toxicity"] > 5000 /\ scores["Threat"] > 5000)
     THEN {"Harassment"} ELSE {})
    \cup
    (IF scores["Obscene"] > 3000 /\ scores["Sexual Explicit"] > 2000
     THEN {"Profanity"} ELSE {})
    \cup
    (IF scores["Identity Attack"] > 5000 /\ scores["Toxicity"] > 6000
     THEN {"Hate Speech"} ELSE {})
    \cup
    (IF scores["Insult"] > 7000 /\ scores["Toxicity"] > 5000
     THEN {"Cyberbullying"} ELSE {})
\* A table whose comparisons admit the threshold itself.
map_detoxify_to_category_inclusive(scores, text) ==
    (IF \/ scores["Threat"] >= 6000
        \/ (scores["Toxicity"] >= 7000 /\ scores["Severe Toxicity"] >= 4000)
     THEN {"Violence"} ELSE {})
    \cup
    (IF /\ scores["Threat"] >= 7000 /\ scores["Identity Attack"] >= 4000
        /\ \E word \in terrorism_keywords : Contains(lower(text), word)
     THEN {"Terrorism"} ELSE {})
    \cup
    (IF /\ (scores["Insult"] >= 5000 \/ scores["Identity Attack"] >= 5000)
        /\ (scores["Toxicity"] >= 5000 /\ scores["Threat"] >= 5000)
     THEN {"Harassment"} ELSE {})
    \cup
    (IF scores["Obscene"] >= 3000 /\ scores["Sexual Explicit"] >= 2000
     THEN {"Profanity"} ELSE {})
    \cup
    (IF scores["Identity Attack"] >= 5000 /\ scores["Toxicity"] >= 6000
     THEN {"Hate Speech"} ELSE {})
    \cup
    (IF scores["Insult"] >= 7000 /\ scores["Toxicity"] >= 5000
     THEN {"Cyberbullying"} ELSE {})
\* A table whose Violence rule asks for more threat than its Terrorism rule.
map_detoxify_to_category_high_violence(scores, text) ==
    (IF scores["Threat"] > 8000
        \/ (scores["Toxicity"] > 7000 /\ scores["Severe Toxicity"] > 4000)
     THEN {"Violence"} ELSE {})
    \cup
    (IF /\ scores["Threat"] > 7000 /\ scores["Identity Attack"] > 4000
        /\ \E word \in terrorism_keywords : Contains(lower(text), word)
     THEN {"Terrorism"} ELSE {})
    \cup
    (IF /\ (scores["Insult"] > 5000 \/ scores["Identity Attack"] > 5000)
        /\ (scores["Toxicity"] > 5000 /\ scores["Threat"] > 5000)
     THEN {"Harassment"} ELSE {})
    \cup
    (IF scores["Obscene"] > 3000 /\ scores["Sexual Explicit"] > 2000
     THEN {"Profanity"} ELSE {})
    \cup
    (IF scores["Identity Attack"] > 5000 /\ scores["Toxicity"] > 6000
     THEN {"Hate Speech"} ELSE {})
    \cup
    (IF scores["Insult"] > 7000 /\ scores["Toxicity"] > 5000
     THEN {"Cyberbullying"} ELSE {})
\* map_detoxify_to_category(scores, text).  A score is round(p * 100, 2),
\* counted in hundredths of a percent: 60 is 6000.  The result is
\* list(set(categories)): a list without duplicates in no fixed order,
\* modelled by the set of its members.
map_detoxify_to_category(scores, text) ==
    (IF scores["Threat"] > 6000
        \/ (scores["Toxicity"] > 7000 /\ scores["Severe Toxicity"] > 4000)
     THEN {"Violence"} ELSE {})
    \cup
    (IF /\ scores["Threat"] > 7000 /\ scores["Identity Attack"] > 4000
        /\ \E word \in terrorism_keywords : Contains(lower(text), word)
     THEN {"Terrorism"} ELSE {})
    \cup
    (IF /\ (scores["Insult"] > 5000 \/ scores["Identity Attack"] > 5000)
        /\ (scores["Toxicity"] > 5000 /\ scores["Threat"] > 5000)
     THEN {"Harassment"} ELSE {})
    \cup
    (IF scores["Obscene"] > 3000 /\ scores["Sexual Explicit"] > 2000
     THEN {"Profanity"} ELSE {})
    \cup
    (IF scores["Identity Attack"] > 5000 /\ scores["Toxicity"] > 6000
     THEN {"Hate Speech"} ELSE {})
    \cup
    (IF scores["Insult"] > 7000 /\ scores["Toxicity"] > 5000
     THEN {"Cyberbullying"} ELSE {})

\* classifier.py THRESHOLD = 0.8, a confidence counted in hundredths.
THRESHOLD == 80
\* classifier.py EXPLICIT_CLASSES
EXPLICIT_CLASSES ==
    {"FEMALE_GENITALIA_EXPOSED", "MALE_GENITALIA_EXPOSED",
     "FEMALE_BREAST_EXPOSED", "EXPOSED_BUTTOCKS"}

\* A detector that wants the confidence above the threshold.
detect_nudity_strict(detections) ==
    \E i \in 1..Len(detections) :
        /\ detections[i].class \in EXPLICIT_CLASSES
        /\ detections[i].score > THRESHOLD
\* detect_nudity: is_explicit over the detector's detections.
detect_nudity(detections) ==
    \E i \in 1..Len(detections) :
        /\ detections[i].class \in EXPLICIT_CLASSES
        /\ detections[i].score >= THRESHOLD

\* The labels of the image model (its id2label is not part of the
\* repository) and the category string f"Detected Category -> {pred_label}".
Labels == {"drugs", "safe"}
DetectedCategory(label) ==
    CASE label = "drugs" -> "Detected Category -> drugs"
      [] label = "weapons" -> "Detected Category -> weapons"
      [] OTHER -> "Detected Category -> safe"

\* A categories list that names the predicted label only when it is not
\* "safe".
classify_image_unsafe_only(img) ==
    (IF detect_nudity(img.detections) THEN <<"Nudity">> ELSE <<>>)
    \o (IF img.label = "safe" THEN <<>> ELSE <<DetectedCategory(img.label)>>)
\* classify_image: the categories list of an image.
classify_image(img) ==
    (IF detect_nudity(img.detections) THEN <<"Nudity">> ELSE <<>>)
    \o <<DetectedCategory(img.label)>>

\* The members of a list.
Range(seq) == {seq[i] : i \in 1..Len(seq)}

\* Counter(all_categories)[cat]
CountOf(seq, cat) == Cardinality({i \in 1..Len(seq) : seq[i] = cat})

\* The place where cat is first seen in seq.
FirstSeen(seq, cat) == CHOOSE i \in 1..Len(seq) :
    seq[i] = cat /\ \A j \in 1..(i - 1) : seq[j] # cat

\* A ranking that puts the one seen last first among equally frequent
\* members.
RECURSIVE most_common_last_seen(_, _, _)
most_common_last_seen(seq, left, n) ==
    IF n = 0 \/ left = {} THEN <<>>
    ELSE LET best == CHOOSE c \in left : \A d \in left \ {c} :
                        \/ CountOf(seq, c) > CountOf(seq, d)
                        \/ /\ CountOf(seq, c) = CountOf(seq, d)
                           /\ FirstSeen(seq, c) > FirstSeen(seq, d)
         IN  <<best>> \o most_common_last_seen(seq, left \ {best}, n - 1)
\* Counter.most_common(n): the n most frequent members, most frequent first,
\* equally frequent ones in the order they were first seen.
RECURSIVE most_common(_, _, _)
most_common(seq, left, n) ==
    IF n = 0 \/ left = {} THEN <<>>
    ELSE LET best == CHOOSE c \in left : \A d \in left \ {c} :
                        \/ CountOf(seq, c) > CountOf(seq, d)
                        \/ /\ CountOf(seq, c) = CountOf(seq, d)
                           /\ FirstSeen(seq, c) < FirstSeen(seq, d)
         IN  <<best>> \o most_common(seq, left \ {best}, n - 1)

\* A frame on which classify_image raises.
FailedFrame == [fail |-> TRUE]

\* A loop that the first failing frame ends.
RECURSIVE all_categories_abort(_, _, _)
all_categories_abort(frames, frame_skip, upto) ==
    IF upto = 0 THEN <<>>
    ELSE IF upto % frame_skip # 0
    THEN all_categories_abort(frames, frame_skip, upto - (upto % frame_skip))
    ELSE IF \E i \in 1..upto : i % frame_skip = 0 /\ frames[i] = FailedFrame
    THEN all_categories_abort(
             frames, frame_skip,
             (CHOOSE i \in 1..upto :
                  i % frame_skip = 0 /\ frames[i] = FailedFrame) - 1)
    ELSE all_categories_abort(frames, frame_skip, upto - 1)
             \o classify_image(frames[upto])
\* analyze_video lines 212-234: all_categories after the frames up to frame
\* number upto.  A frame is an image, or FailedFrame.  The frames read
\* since the last one with frame_no % frame_skip = 0 were passed over by
\* the continue of line 220.
RECURSIVE all_categories(_, _, _)
all_categories(frames, frame_skip, upto) ==
    IF upto = 0 THEN <<>>
    ELSE IF upto % frame_skip # 0
    THEN all_categories(frames, frame_skip, upto - (upto % frame_skip))
    ELSE LET before == all_categories(frames, frame_skip, upto - 1)
         IN  IF frames[upto] = FailedFrame THEN before
             ELSE before \o classify_image(frames[upto])

\* analyze_video lines 222-234: the frame_no entries of frame_results after
\* the frames up to frame number upto.
RECURSIVE frame_results(_, _, _)
frame_results(frames, frame_skip, upto) ==
    IF upto = 0 THEN <<>>
    ELSE IF upto % frame_skip # 0
    THEN frame_results(frames, frame_skip, upto - (upto % frame_skip))
    ELSE LET before == frame_results(frames, frame_skip, upto - 1)
         IN  IF frames[upto] = FailedFrame THEN before
             ELSE Append(before, upto)

\* A sampling that counts frame numbers from 0.
ProcessedFrames_zero_based(frames, frame_skip) ==
    {i \in 1..Len(frames) : (i - 1) % frame_skip = 0}
\* analyze_video lines 216-220: the frames it hands to classify_image.
ProcessedFrames(frames, frame_skip) ==
    {i \in 1..Len(frames) : i % frame_skip = 0}

\* analyze_video: video_summary.
analyze_video(frames, frame_skip) ==
    LET cats == all_categories(frames, frame_skip, Len(frames))
    IN  [dominant_categories |-> most_common(cats, Range(cats), 3),
         category_counts |-> [c \in Range(cats) |-> CountOf(cats, c)],
         total_frames |-> Len(frames),
         processed_frames |-> Cardinality(ProcessedFrames(frames, frame_skip))]

(***************************************************************************)
(* The inputs of the classification requests.                              *)
(***************************************************************************)
Scores(tox, sev, obs, ida, ins, thr, sex) ==
    [l \in {"Toxicity", "Severe Toxicity", "Obscene", "Identity Attack",
            "Insult", "Threat", "Sexual Explicit"} |->
        CASE l = "Toxicity" -> tox
          [] l = "Severe Toxicity" -> sev
          [] l = "Obscene" -> obs
          [] l = "Identity Attack" -> ida
          [] l = "Insult" -> ins
          [] l = "Threat" -> thr
          [] OTHER -> sex]

\* Texts with their scores: a clean one, a threat that names a bomb, an
\* obscene one.
TextCases ==
    { [scores |-> Scores(1000, 1000, 1000, 1000, 1000, 1000, 1000),
       text |-> <<"h", "i">>],
      [scores |-> Scores(1000, 1000, 1000, 4500, 1000, 7500, 1000),
       text |-> <<"B", "o", "m", "b", " ", "t", "h", "r", "e", "a", "t">>],
      [scores |-> Scores(1000, 1000, 3001, 1000, 1000, 1000, 2001),
       text |-> <<"h", "i">>] }

\* Images: nothing detected, an explicit class at the threshold, an explicit
\* class just under it, a class that is not explicit.
ImageCases ==
    [detections : { <<>>,
                    <<[class |-> "FEMALE_BREAST_EXPOSED", score |-> 80]>>,
                    <<[class |-> "FEMALE_BREAST_EXPOSED", score |-> 79]>>,
                    <<[class |-> "FACE_FEMALE", score |-> 95]>> },
     label : Labels]

FrameCases ==
    { FailedFrame,
      [detections |-> <<>>, label |-> "drugs"],
      [detections |-> <<[class |-> "FEMALE_BREAST_EXPOSED", score |-> 80]>>,
       label |-> "safe"] }
VideoCases ==
    UNION {[1..n -> FrameCases] : n \in 0..MaxFrames}
StrideCases == {1, 2}

\* video_classification_view: analyze_video(temp_video_path, frame_skip=50)
WebFrameSkip == 50

\* Uploads long enough for the web form's stride to reach a frame: that
\* many frames, all alike.
LongVideoCases == {[i \in 1..WebFrameSkip |-> f] : f \in FrameCases}

(***************************************************************************)
(* Submission creation (api_views.py 160-171, 255-267, 354-366;            *)
(* views.py 151-161, 232-242, 296-305)                                     *)
(***************************************************************************)
\* A row that is flagged whatever was detected.
ContentSubmission_flagged(user, kind, cats, isFlagged, st, api) ==
    [user |-> user, content_type |-> kind, detected_categories |-> cats,
     flagged |-> TRUE, status |-> st, is_from_api |-> api]
\* ContentSubmission.objects.create: the row inserted.  detected_categories
\* holds the members of the categories list.
ContentSubmission(user, kind, cats, isFlagged, st, api) ==
    [user |-> user, content_type |-> kind, detected_categories |-> cats,
     flagged |-> isFlagged, status |-> st, is_from_api |-> api]

\* api_classify_text, after admission and metering.
ApiClassifyText ==
    /\ Len(subs) < MaxSubs
    /\ \E in \in TextCases :
         LET text_categories == map_detoxify_to_category(in.scores, in.text)
         IN  subs' = Append(subs, ContentSubmission(
                 KeyOwner, "text", text_categories,
                 text_categories # {},
                 IF text_categories # {} THEN "pending_review" ELSE "auto_approved",
                 TRUE))
    /\ UNCHANGED <<second_key, payments, call, reply, admitVars, meterVars, notifications, reviews, rpc, rloc>>

\* api_classify_image, after admission and metering.
ApiClassifyImage ==
    /\ Len(subs) < MaxSubs
    /\ \E in \in ImageCases :
         LET image_categories == classify_image(in)
         IN  subs' = Append(subs, ContentSubmission(
                 KeyOwner, "image", Range(image_categories),
                 image_categories # <<>>,
                 IF image_categories # <<>> THEN "pending_review" ELSE "auto_approved",
                 TRUE))
    /\ UNCHANGED <<second_key, payments, call, reply, admitVars, meterVars, notifications, reviews, rpc, rloc>>

\* api_classify_video, after admission and metering.
ApiClassifyVideo ==
    /\ Len(subs) < MaxSubs
    /\ \E frames \in VideoCases, frame_skip \in StrideCases :
         LET video_categories ==
                 analyze_video(frames, frame_skip).dominant_categories
         IN  subs' = Append(subs, ContentSubmission(
                 KeyOwner, "video", Range(video_categories),
                 video_categories # <<>>,
                 IF video_categories # <<>> THEN "pending_review" ELSE "auto_approved",
                 TRUE))
    /\ UNCHANGED <<second_key, payments, call, reply, admitVars, meterVars, notifications, reviews, rpc, rloc>>

\* A view that sends every submission to review, flagged or not.
TextClassificationView_always_pending ==
    /\ Len(subs) < MaxSubs
    /\ \E u \in Users, in \in TextCases :
         LET text_categories == map_detoxify_to_category(in.scores, in.text)
         IN  subs' = Append(subs, ContentSubmission(
                 u, "text", text_categories,
                 text_categories # {}, "pending_review", FALSE))
    /\ UNCHANGED <<second_key, payments, call, reply, admitVars, meterVars, notifications, reviews, rpc, rloc>>

\* text_classification_view of the logged-in user u.
TextClassificationView ==
    /\ Len(subs) < MaxSubs
    /\ \E u \in Users, in \in TextCases :
         LET text_categories == map_detoxify_to_category(in.scores, in.text)
         IN  subs' = Append(subs, ContentSubmission(
                 u, "text", text_categories,
                 text_categories # {},
                 IF text_categories # {} THEN "pending_review" ELSE "auto_approved",
                 FALSE))
    /\ UNCHANGED <<second_key, payments, call, reply, admitVars, meterVars, notifications, reviews, rpc, rloc>>

\* image_classification_view of the logged-in user u.
ImageClassificationView ==
    /\ Len(subs) < MaxSubs
    /\ \E u \in Users, in \in ImageCases :
         LET image_categories == classify_image(in)
         IN  subs' = Append(subs, ContentSubmission(
                 u, "image", Range(image_categories),
                 image_categories # <<>>,
                 IF image_categories # <<>> THEN "pending_review" ELSE "auto_approved",
                 FALSE))
    /\ UNCHANGED <<second_key, payments, call, reply, admitVars, meterVars, notifications, reviews, rpc, rloc>>

\* video_classification_view of the logged-in user u: frame_skip is 50, so
\* an upload of fewer than 50 frames has no processed frame.
VideoClassificationView ==
    /\ Len(subs) < MaxSubs
    /\ \E u \in Users, frames \in VideoCases \cup LongVideoCases :
         LET video_categories ==
                 analyze_video(frames, WebFrameSkip).dominant_categories
         IN  subs' = Append(subs, ContentSubmission(
                 u, "video", Range(video_categories),
                 video_categories # <<>>,
                 IF video_categories # <<>> THEN "pending_review" ELSE "auto_approved",
                 FALSE))
    /\ UNCHANGED <<second_key, payments, call, reply, admitVars, meterVars, notifications, reviews, rpc, rloc>>

(***************************************************************************)
(* review_content (views.py 360-398) and AdminReview.save                  *)
(* (models.py 99-118), one query per step                                  *)
(***************************************************************************)
\* AdminReview.DECISION_CHOICES
DECISION_CHOICES == {"approved", "rejected"}

\* The pks of the AdminReview rows of submission sid.
ReviewsOf(rows, sid) == {i \in 1..Len(rows) : rows[i].submission = sid}

\* AdminReview.objects.filter(submission=submission).first() under the
\* model's ordering, newest first: the pk found, 0 for None.
existing_review(rows, sid) ==
    IF ReviewsOf(rows, sid) = {} THEN 0
    ELSE CHOOSE i \in ReviewsOf(rows, sid) : \A j \in ReviewsOf(rows, sid) : j <= i

\* A table without the unique constraint.
InsertAllowed_always(rows, sid) == TRUE

\* AdminReview.submission is a OneToOneField: the database refuses a second
\* row for the same submission.
InsertAllowed(rows, sid) == ReviewsOf(rows, sid) = {}

\* A save that also clears the flag of what it approves.
ReviewedSubmission_unflag(submission, decision) ==
    IF decision = "approved"
    THEN [submission EXCEPT !.status = "approved", !.flagged = FALSE]
    ELSE [submission EXCEPT !.status = "rejected"]

\* AdminReview.save lines 101-105: the submission row it saves.
ReviewedSubmission(submission, decision) ==
    IF decision = "approved"
    THEN [submission EXCEPT !.status = "approved"]
    ELSE [submission EXCEPT !.status = "rejected"]

\* A save that notifies whether or not the row is new.
Announces_always(is_new, submission) == submission.user \in Users

\* AdminReview.save line 111: whether the review is announced.
Announces(is_new, submission) == is_new /\ submission.user \in Users

\* AdminReview.save lines 112-118.
ReviewNotice(submission, sid) ==
    [user |-> submission.user, notification_type |-> "review_complete",
     related_submission |-> sid]

\* No review_content request is in flight.
Quiet == \A r \in Reviewers : rpc[r] = "idle"

\* What a review_content request carries: a GET, or a POST of the form with
\* a decision, which may be none of the choices.
ReviewForms ==
    {[method |-> "GET", decision |-> ""]} \cup
    [method : {"POST"}, decision : DECISION_CHOICES \cup {"other"}]

\* get_object_or_404(ContentSubmission, id=submission_id).  rloc[r].submission
\* is the row as loaded; the instance AdminReview.save then assigns to and
\* writes is ReviewedSubmission of it and of the decision.
RevLoad(r) ==
    /\ rpc[r] = "idle"
    /\ \E sid \in 1..MaxSubs, form \in ReviewForms :
         IF sid \in DOMAIN subs
         THEN /\ rloc' = [rloc EXCEPT ![r] =
                     [sid |-> sid, method |-> form.method,
                      decision |-> form.decision,
                      submission |-> subs[sid], existing |-> 0]]
              /\ rpc' = [rpc EXCEPT ![r] = "loaded"]
         ELSE UNCHANGED <<rloc, rpc>>
    /\ UNCHANGED <<second_key, payments, call, reply, admitVars, meterVars, notifications, subs, reviews>>

\* existing_review = ...first(); then the form: a GET or an invalid form
\* renders the page, a valid POST goes on to review.save().
RevFind(r) ==
    /\ rpc[r] = "loaded"
    /\ IF rloc[r].method = "POST" /\ rloc[r].decision \in DECISION_CHOICES
       THEN /\ rloc' = [rloc EXCEPT ![r].existing =
                           existing_review(reviews, rloc[r].sid)]
            /\ rpc' = [rpc EXCEPT ![r] = "save_submission"]
       ELSE /\ rloc' = [rloc EXCEPT ![r] = NoRow]
            /\ rpc' = [rpc EXCEPT ![r] = "idle"]
    /\ UNCHANGED <<second_key, payments, call, reply, admitVars, meterVars, notifications, subs, reviews>>

\* AdminReview.save: self.submission.save()
RevSaveSubmission(r) ==
    /\ rpc[r] = "save_submission"
    /\ LET saved == ReviewedSubmission(rloc[r].submission, rloc[r].decision)
       IN  subs' = [subs EXCEPT ![rloc[r].sid] = saved]
    /\ rpc' = [rpc EXCEPT ![r] = "save_review"]
    /\ UNCHANGED <<second_key, payments, call, reply, admitVars, meterVars, notifications, reviews, rloc>>

\* AdminReview.save: super().save(), an INSERT when pk is None, else an
\* UPDATE of the row.  A refused INSERT raises IntegrityError.
RevSaveReview(r) ==
    /\ rpc[r] = "save_review"
    /\ LET row == [submission |-> rloc[r].sid, admin |-> r,
                   decision |-> rloc[r].decision]
           is_new == rloc[r].existing = 0
       IN  IF is_new /\ ~InsertAllowed(reviews, rloc[r].sid)
           THEN /\ rpc' = [rpc EXCEPT ![r] = "refused"]
                /\ UNCHANGED <<reviews, rloc>>
           ELSE /\ reviews' = IF is_new
                              THEN Append(reviews, row)
                              ELSE [reviews EXCEPT ![rloc[r].existing] = row]
                /\ IF Announces(is_new, rloc[r].submission)
                   THEN /\ rpc' = [rpc EXCEPT ![r] = "notify"]
                        /\ UNCHANGED rloc
                   ELSE /\ rpc' = [rpc EXCEPT ![r] = "idle"]
                        /\ rloc' = [rloc EXCEPT ![r] = NoRow]
    /\ UNCHANGED <<second_key, payments, call, reply, admitVars, meterVars, notifications, subs>>

\* review.save() has raised: nothing in review_content catches it, and the
\* request ends in a server error, without notification or redirect.
RevRefused(r) ==
    /\ rpc[r] = "refused"
    /\ rpc' = [rpc EXCEPT ![r] = "idle"]
    /\ rloc' = [rloc EXCEPT ![r] = NoRow]
    /\ UNCHANGED <<second_key, payments, call, reply, admitVars, meterVars, notifications, subs, reviews>>

\* AdminReview.save: Notification.objects.create(...)
RevNotify(r) ==
    /\ rpc[r] = "notify"
    /\ notifications' =
           Append(notifications, ReviewNotice(rloc[r].submission, rloc[r].sid))
    /\ rpc' = [rpc EXCEPT ![r] = "idle"]
    /\ rloc' = [rloc EXCEPT ![r] = NoRow]
    /\ UNCHANGED <<second_key, payments, call, reply, admitVars, meterVars, subs, reviews>>

\* A review_content request that starts when no other one is in flight.
RevLoadAlone(r) == Quiet /\ RevLoad(r)

LifeInit ==
    /\ subs = <<>>
    /\ reviews = <<>>
    /\ rpc = [r \in Reviewers |-> "idle"]
    /\ rloc = [r \in Reviewers |-> NoRow]

(***************************************************************************)
(* review_content behind its decorators (views.py 28-30, 358-398), one     *)
(* request at a time                                                       *)
(***************************************************************************)
\* Who sends a review_content request: a visitor without a session, a user
\* without a UserProfile, and users with a profile of each of ROLE_CHOICES.
\* profile is the role of the profile, "none" without one.
Requesters ==
    { [name |-> "anonymous", is_authenticated |-> FALSE, profile |-> "none"],
      [name |-> "root", is_authenticated |-> TRUE, profile |-> "none"],
      [name |-> "alice", is_authenticated |-> TRUE, profile |-> "user"],
      [name |-> "carol", is_authenticated |-> TRUE, profile |-> "api_user"],
      [name |-> "sam", is_authenticated |-> TRUE, profile |-> "super_admin"],
      [name |-> "r1", is_authenticated |-> TRUE, profile |-> "admin"] }

\* A test that passes every logged-in user.
is_admin_logged_in(user) == user.is_authenticated
\* is_admin(user)
is_admin(user) ==
    user.is_authenticated /\ user.profile # "none" /\ user.profile = "admin"

\* review_content for the request of user on submission sid with form, no
\* other review request in flight: @login_required and
\* @user_passes_test(is_admin) redirect to the login page; the view answers
\* 404, renders the page, or saves the review (AdminReview.save).
review_content(user, sid, form) ==
    LET is_valid == form.method = "POST" /\ form.decision \in DECISION_CHOICES
        reaches == is_admin(user) /\ sid \in DOMAIN subs /\ is_valid
        existing == existing_review(reviews, sid)
        is_new == existing = 0
        row == [submission |-> sid, admin |-> user.name,
                decision |-> form.decision]
        saves == reaches /\ (is_new => InsertAllowed(reviews, sid))
    IN  /\ call' = [fn |-> "review_content",
                    args |-> [user |-> user, sid |-> sid, form |-> form],
                    done |-> TRUE,
                    result |-> IF ~is_admin(user) THEN "login"
                               ELSE IF sid \notin DOMAIN subs THEN "404"
                               ELSE IF ~is_valid THEN "page"
                               ELSE IF ~saves THEN "500"
                               ELSE "admin_dashboard"]
        /\ subs' = IF reaches
                   THEN [subs EXCEPT ![sid] =
                            ReviewedSubmission(subs[sid], form.decision)]
                   ELSE subs
        /\ reviews' = IF ~saves THEN reviews
                      ELSE IF is_new THEN Append(reviews, row)
                      ELSE [reviews EXCEPT ![existing] = row]
        /\ notifications' =
               IF saves /\ Announces(is_new, subs[sid])
               THEN Append(notifications, ReviewNotice(subs[sid], sid))
               ELSE notifications

ReviewContent ==
    /\ Quiet
    /\ \E user \in Requesters, sid \in 1..MaxSubs, form \in ReviewForms :
         review_content(user, sid, form)
    /\ UNCHANGED <<second_key, payments, reply, admitVars, meterVars, rpc, rloc>>

(***************************************************************************)
(* The request handlers from start to end (api_views.py 126-426,           *)
(* views.py 118-327), one request at a time.  reply records what the       *)
(* request handled last did: the tables it wrote, whether it called the    *)
(* classifier, the POSTs it made to a webhook, and what the caller got.    *)
(***************************************************************************)
\* No request handled yet.
NoReply ==
    [admission |-> "none", fault |-> "none",
     code |-> 0, error |-> FALSE, classified |-> FALSE, wrote |-> {},
     submission |-> 0, hook |-> "unsent", posts |-> 0, webhook_url |-> FALSE]

\* The X-API-Key header of a request.
Presented == {"missing", "unknown", "valid"}

\* What the POST to the webhook URL does: requests.post returns, or it
\* raises (connection error, timeout after 10 s, a payload that does not
\* encode).
WebhookOutcomes == {"delivered", "failed"}

\* A request body: where the content comes from ("missing" when the
\* required field is absent or blank), the step that fails on it, the
\* content as the classifier sees it, frame_skip, and whether webhook_url
\* is given.
Body(content, fault, in, frame_skip, webhook_url) ==
    [content |-> content, fault |-> fault, in |-> in,
     frame_skip |-> frame_skip, webhook_url |-> webhook_url]

NoContent == Body("missing", "none", <<>>, 1, FALSE)

\* A body with content on which the step named by fault fails; what the
\* content is plays no part.
Faulty(content, fault) == Body(content, fault, <<>>, 1, FALSE)

\* The images and videos of the requests: two of the ImageCases, and the
\* VideoCases of at most one frame.
RequestImages ==
    {i \in ImageCases : i.label = "safe" /\ i.detections \in
        {<<>>, <<[class |-> "FEMALE_BREAST_EXPOSED", score |-> 80]>>}}
RequestVideos == {v \in VideoCases : Len(v) <= 1}

\* TextClassificationSerializer; classify_text raises when the translation
\* fails, when the model does, or when kw_model.extract_keywords does
\* (classifier.py 70-72, outside any try).
ApiTextBodies ==
    {NoContent} \cup
    {Faulty("text", f) : f \in {"translation", "model", "keywords"}} \cup
    {Body("text", "none", t, 1, w) : t \in TextCases, w \in BOOLEAN}

\* ImageClassificationSerializer; Image.open raises on bytes that are no
\* image, requests.get on a fetch error or after 10 s, classify_image when
\* the model does.
ApiImageBodies ==
    {NoContent} \cup
    {Faulty("file", f) : f \in {"undecodable", "model"}} \cup
    {Faulty("url", f) : f \in {"fetch", "undecodable", "model"}} \cup
    {Body(c, "none", i, 1, w) :
        c \in {"file", "url"}, i \in RequestImages, w \in BOOLEAN}

\* VideoClassificationSerializer; analyze_video raises when the capture
\* does not open, requests.get on a fetch error or after 30 s.  A frame on
\* which the model fails is a FailedFrame of the video.
ApiVideoBodies ==
    {NoContent} \cup
    {Faulty("file", "unopenable")} \cup
    {Faulty("url", f) : f \in {"fetch", "unopenable"}} \cup
    {Body(c, "none", v, s, w) :
        c \in {"file", "url"}, v \in RequestVideos, s \in StrideCases,
        w \in BOOLEAN}

\* The defect of a request's input, "none" for a sound one.
InputFault(body) ==
    IF body.content = "missing" THEN "missing" ELSE body.fault

\* Whether the handler gets as far as calling classify_text, classify_image
\* or analyze_video on a body with content.
ReachesClassifier(kind, fault) ==
    CASE kind = "text" -> TRUE
      [] kind = "image" -> fault \in {"none", "model"}
      [] OTHER -> fault \in {"none", "unopenable"}

\* The categories the classifier returns for the content of a sound body.
Categories(kind, body) ==
    CASE kind = "text" -> map_detoxify_to_category(body.in.scores, body.in.text)
      [] kind = "image" -> Range(classify_image(body.in))
      [] OTHER -> Range(analyze_video(body.in, body.frame_skip).dominant_categories)

\* A webhook call that lets the failure of the POST reach its caller.
send_webhook_notification_raising(post) ==
    [posts |-> 1, hook |-> post, raised |-> post = "failed"]

\* send_webhook_notification (api_views.py 50-63) with a URL: one
\* requests.post inside try/except Exception, no second attempt.
send_webhook_notification(post) ==
    [posts |-> 1, hook |-> post, raised |-> FALSE]

\* The tables a request wrote.
Wrote(key2, billing2, notifications2, subs2) ==
    {t \in {"key", "billing", "notifications", "subs"} :
        CASE t = "key" -> key2 # key
          [] t = "billing" -> billing2 # billing
          [] t = "notifications" -> notifications2 # notifications
          [] OTHER -> subs2 # subs}

\* Endpoints that meter a request only once its submission is created.
ApiClassify_validating_first(kind, bodies) ==
    \E presented \in Presented :
    \E body \in IF authenticate_api_key(key, presented, today).outcome = "admitted"
                THEN bodies ELSE {NoContent} :
    \E post \in IF body.webhook_url THEN WebhookOutcomes ELSE {"unsent"} :
      LET auth == authenticate_api_key(key, presented, today)
          ok == auth.outcome = "admitted"
          usage == IF ok /\ body.content # "missing" /\ body.fault = "none"
                   THEN track_api_usage(billing, notifications, month)
                   ELSE [billing |-> billing, notifications |-> notifications]
          valid == ok /\ body.content # "missing"
          creates == valid /\ body.fault = "none"
          cats == IF creates THEN Categories(kind, body) ELSE {}
          row == ContentSubmission(
                     KeyOwner, kind, cats, cats # {},
                     IF cats # {} THEN "pending_review" ELSE "auto_approved",
                     TRUE)
          subs2 == IF creates THEN Append(subs, row) ELSE subs
          sent == IF creates /\ row.flagged /\ body.webhook_url
                  THEN send_webhook_notification(post)
                  ELSE [posts |-> 0, hook |-> "unsent", raised |-> FALSE]
          code == IF ~ok THEN 401
                  ELSE IF ~valid THEN 400
                  ELSE IF ~creates \/ sent.raised THEN 500
                  ELSE 200
      IN  /\ presented = "valid" => attempts < MaxAttempts
          /\ ok => metered < MaxMetered
          /\ creates => Len(subs) < MaxSubs
          /\ key' = auth.key
          /\ outcome' = auth.outcome
          /\ attempts' = IF presented = "valid" THEN attempts + 1 ELSE attempts
          /\ admitted' = IF ok THEN admitted + 1 ELSE admitted
          /\ refused' = IF auth.outcome = "quota"
                        THEN refused \cup {today} ELSE refused
          /\ billing' = usage.billing
          /\ notifications' = usage.notifications
          /\ metered' = IF creates THEN metered + 1 ELSE metered
          /\ subs' = subs2
          /\ reply' = [admission |-> auth.outcome,
                       fault |-> InputFault(body),
                       code |-> code, error |-> code >= 400,
                       classified |-> valid /\ ReachesClassifier(kind, body.fault),
                       wrote |-> Wrote(auth.key, usage.billing,
                                       usage.notifications, subs2),
                       submission |-> IF creates THEN Len(subs2) ELSE 0,
                       hook |-> sent.hook, posts |-> sent.posts,
                       webhook_url |-> valid /\ body.webhook_url]
          /\ UNCHANGED <<second_key, payments, call, today, pc, snap, month, reviews, rpc, rloc>>
\* api_classify_text, api_classify_image and api_classify_video share their
\* shape: authenticate, meter, validate, then inside try: load, classify,
\* create the submission, send the webhook when it is flagged and
\* webhook_url is given; any exception gives 500.  The body of a refused
\* request is never read: NoContent stands for every body.  post is what
\* the POST to the webhook does when one is made.
ApiClassify(kind, bodies) ==
    \E presented \in Presented :
    \E body \in IF authenticate_api_key(key, presented, today).outcome = "admitted"
                THEN bodies ELSE {NoContent} :
    \E post \in IF body.webhook_url THEN WebhookOutcomes ELSE {"unsent"} :
      LET auth == authenticate_api_key(key, presented, today)
          ok == auth.outcome = "admitted"
          usage == IF ok
                   THEN track_api_usage(billing, notifications, month)
                   ELSE [billing |-> billing, notifications |-> notifications]
          valid == ok /\ body.content # "missing"
          creates == valid /\ body.fault = "none"
          cats == IF creates THEN Categories(kind, body) ELSE {}
          row == ContentSubmission(
                     KeyOwner, kind, cats, cats # {},
                     IF cats # {} THEN "pending_review" ELSE "auto_approved",
                     TRUE)
          subs2 == IF creates THEN Append(subs, row) ELSE subs
          sent == IF creates /\ row.flagged /\ body.webhook_url
                  THEN send_webhook_notification(post)
                  ELSE [posts |-> 0, hook |-> "unsent", raised |-> FALSE]
          code == IF ~ok THEN 401
                  ELSE IF ~valid THEN 400
                  ELSE IF ~creates \/ sent.raised THEN 500
                  ELSE 200
      IN  /\ presented = "valid" => attempts < MaxAttempts
          /\ ok => metered < MaxMetered
          /\ creates => Len(subs) < MaxSubs
          /\ key' = auth.key
          /\ outcome' = auth.outcome
          /\ attempts' = IF presented = "valid" THEN attempts + 1 ELSE attempts
          /\ admitted' = IF ok THEN admitted + 1 ELSE admitted
          /\ refused' = IF auth.outcome = "quota"
                        THEN refused \cup {today} ELSE refused
          /\ billing' = usage.billing
          /\ notifications' = usage.notifications
          /\ metered' = IF ok THEN metered + 1 ELSE metered
          /\ subs' = subs2
          /\ reply' = [admission |-> auth.outcome,
                       fault |-> InputFault(body),
                       code |-> code, error |-> code >= 400,
                       classified |-> valid /\ ReachesClassifier(kind, body.fault),
                       wrote |-> Wrote(auth.key, usage.billing,
                                       usage.notifications, subs2),
                       submission |-> IF creates THEN Len(subs2) ELSE 0,
                       hook |-> sent.hook, posts |-> sent.posts,
                       webhook_url |-> valid /\ body.webhook_url]
          /\ UNCHANGED <<second_key, payments, call, today, pc, snap, month, reviews, rpc, rloc>>

\* Metering by credential: the requests of the second key are counted in
\* a record of their own and leave the owner's first record alone.
ApiClassifySecond_own_record(kind, bodies) ==
    second_key # NoRow /\
    \E presented \in Presented :
    \E body \in IF authenticate_api_key(second_key, presented, today).outcome = "admitted"
                THEN bodies ELSE {NoContent} :
    \E post \in IF body.webhook_url THEN WebhookOutcomes ELSE {"unsent"} :
      LET auth == authenticate_api_key(second_key, presented, today)
          ok == auth.outcome = "admitted"
          usage == [billing |-> billing, notifications |-> notifications]
          valid == ok /\ body.content # "missing"
          creates == valid /\ body.fault = "none"
          cats == IF creates THEN Categories(kind, body) ELSE {}
          row == ContentSubmission(
                     KeyOwner, kind, cats, cats # {},
                     IF cats # {} THEN "pending_review" ELSE "auto_approved",
                     TRUE)
          subs2 == IF creates THEN Append(subs, row) ELSE subs
          sent == IF creates /\ row.flagged /\ body.webhook_url
                  THEN send_webhook_notification(post)
                  ELSE [posts |-> 0, hook |-> "unsent", raised |-> FALSE]
          code == IF ~ok THEN 401
                  ELSE IF ~valid THEN 400
                  ELSE IF ~creates \/ sent.raised THEN 500
                  ELSE 200
      IN  /\ presented = "valid" => attempts < MaxAttempts
          /\ ok => metered < MaxMetered
          /\ creates => Len(subs) < MaxSubs
          /\ second_key' = auth.key
          /\ outcome' = auth.outcome
          /\ attempts' = IF presented = "valid" THEN attempts + 1 ELSE attempts
          /\ admitted' = IF ok THEN admitted + 1 ELSE admitted
          /\ refused' = IF auth.outcome = "quota"
                        THEN refused \cup {today} ELSE refused
          /\ billing' = usage.billing
          /\ notifications' = usage.notifications
          /\ metered' = IF ok THEN metered + 1 ELSE metered
          /\ subs' = subs2
          /\ reply' = [admission |-> auth.outcome,
                       fault |-> InputFault(body),
                       code |-> code, error |-> code >= 400,
                       classified |-> valid /\ ReachesClassifier(kind, body.fault),
                       wrote |-> Wrote(key, usage.billing,
                                       usage.notifications, subs2)
                                 \cup IF auth.key # second_key
                                      THEN {"key"} ELSE {},
                       submission |-> IF creates THEN Len(subs2) ELSE 0,
                       hook |-> sent.hook, posts |-> sent.posts,
                       webhook_url |-> valid /\ body.webhook_url]
          /\ UNCHANGED <<key, payments, call, today, pc, snap, month, reviews, rpc, rloc>>
\* The same endpoints reached with the KeyOwner's second key in X-API-Key:
\* authenticate_api_key works on that row, track_api_usage on the record of
\* api_key_obj.user, the user of both keys.
ApiClassifySecond(kind, bodies) ==
    second_key # NoRow /\
    \E presented \in Presented :
    \E body \in IF authenticate_api_key(second_key, presented, today).outcome = "admitted"
                THEN bodies ELSE {NoContent} :
    \E post \in IF body.webhook_url THEN WebhookOutcomes ELSE {"unsent"} :
      LET auth == authenticate_api_key(second_key, presented, today)
          ok == auth.outcome = "admitted"
          usage == IF ok
                   THEN track_api_usage(billing, notifications, month)
                   ELSE [billing |-> billing, notifications |-> notifications]
          valid == ok /\ body.content # "missing"
          creates == valid /\ body.fault = "none"
          cats == IF creates THEN Categories(kind, body) ELSE {}
          row == ContentSubmission(
                     KeyOwner, kind, cats, cats # {},
                     IF cats # {} THEN "pending_review" ELSE "auto_approved",
                     TRUE)
          subs2 == IF creates THEN Append(subs, row) ELSE subs
          sent == IF creates /\ row.flagged /\ body.webhook_url
                  THEN send_webhook_notification(post)
                  ELSE [posts |-> 0, hook |-> "unsent", raised |-> FALSE]
          code == IF ~ok THEN 401
                  ELSE IF ~valid THEN 400
                  ELSE IF ~creates \/ sent.raised THEN 500
                  ELSE 200
      IN  /\ presented = "valid" => attempts < MaxAttempts
          /\ ok => metered < MaxMetered
          /\ creates => Len(subs) < MaxSubs
          /\ second_key' = auth.key
          /\ outcome' = auth.outcome
          /\ attempts' = IF presented = "valid" THEN attempts + 1 ELSE attempts
          /\ admitted' = IF ok THEN admitted + 1 ELSE admitted
          /\ refused' = IF auth.outcome = "quota"
                        THEN refused \cup {today} ELSE refused
          /\ billing' = usage.billing
          /\ notifications' = usage.notifications
          /\ metered' = IF ok THEN metered + 1 ELSE metered
          /\ subs' = subs2
          /\ reply' = [admission |-> auth.outcome,
                       fault |-> InputFault(body),
                       code |-> code, error |-> code >= 400,
                       classified |-> valid /\ ReachesClassifier(kind, body.fault),
                       wrote |-> Wrote(key, usage.billing,
                                       usage.notifications, subs2)
                                 \cup IF auth.key # second_key
                                      THEN {"key"} ELSE {},
                       submission |-> IF creates THEN Len(subs2) ELSE 0,
                       hook |-> sent.hook, posts |-> sent.posts,
                       webhook_url |-> valid /\ body.webhook_url]
          /\ UNCHANGED <<key, payments, call, today, pc, snap, month, reviews, rpc, rloc>>

api_classify_text == ApiClassify("text", ApiTextBodies)
api_classify_image == ApiClassify("image", ApiImageBodies)
api_classify_video == ApiClassify("video", ApiVideoBodies)

\* A lookup by id alone, whoever the submission belongs to.
GetSubmission_of_anyone(presented, submission_id) ==
    LET auth == authenticate_api_key(key, presented, today)
        ok == auth.outcome = "admitted"
        found == submission_id \in 1..Len(subs)
        code == IF ~ok THEN 401 ELSE IF found THEN 200 ELSE 404
    IN  /\ presented = "valid" => attempts < MaxAttempts
        /\ key' = auth.key
        /\ outcome' = auth.outcome
        /\ attempts' = IF presented = "valid" THEN attempts + 1 ELSE attempts
        /\ admitted' = IF ok THEN admitted + 1 ELSE admitted
        /\ refused' = IF auth.outcome = "quota"
                      THEN refused \cup {today} ELSE refused
        /\ reply' = [admission |-> auth.outcome,
                     fault |-> "none", code |-> code, error |-> code >= 400,
                     classified |-> FALSE,
                     wrote |-> Wrote(auth.key, billing, notifications, subs),
                     submission |-> IF ok /\ found THEN submission_id ELSE 0,
                     hook |-> "unsent", posts |-> 0, webhook_url |-> FALSE]
        /\ UNCHANGED <<second_key, payments, today, pc, snap, meterVars, notifications, lifeVars>>
\* api_get_submission (api_views.py 402-426) with the header presented and
\* the id of the URL: authenticate, then look the submission up among those
\* of the key's owner.
GetSubmission(presented, submission_id) ==
    LET auth == authenticate_api_key(key, presented, today)
        ok == auth.outcome = "admitted"
        found == /\ submission_id \in 1..Len(subs)
                 /\ subs[submission_id].user = KeyOwner
        code == IF ~ok THEN 401 ELSE IF found THEN 200 ELSE 404
    IN  /\ presented = "valid" => attempts < MaxAttempts
        /\ key' = auth.key
        /\ outcome' = auth.outcome
        /\ attempts' = IF presented = "valid" THEN attempts + 1 ELSE attempts
        /\ admitted' = IF ok THEN admitted + 1 ELSE admitted
        /\ refused' = IF auth.outcome = "quota"
                      THEN refused \cup {today} ELSE refused
        /\ reply' = [admission |-> auth.outcome,
                     fault |-> "none", code |-> code, error |-> code >= 400,
                     classified |-> FALSE,
                     wrote |-> Wrote(auth.key, billing, notifications, subs),
                     submission |-> IF ok /\ found THEN submission_id ELSE 0,
                     hook |-> "unsent", posts |-> 0, webhook_url |-> FALSE]
        /\ UNCHANGED <<second_key, payments, today, pc, snap, meterVars, notifications, lifeVars>>

api_get_submission ==
    \E presented \in Presented, submission_id \in 1..MaxSubs :
        GetSubmission(presented, submission_id) /\ UNCHANGED call

\* api_get_submission, the request followed on its own: call holds the
\* header, the id asked for and the status of the Response.
ApiGetSubmissionCall ==
    \E presented \in Presented, submission_id \in 1..MaxSubs :
        /\ GetSubmission(presented, submission_id)
        /\ call' = [fn |-> "api_get_submission",
                    args |-> [presented |-> presented,
                              submission_id |-> submission_id],
                    done |-> TRUE,
                    result |-> [code |-> reply'.code]]

\* TextInputForm: both fields are optional; the text of a URL is fetched
\* by fetch_text_from_url, which fails or returns nothing usable.
WebTextBodies ==
    {NoContent} \cup
    {Faulty("text", f) : f \in {"translation", "model", "keywords"}} \cup
    {Faulty("url", f) : f \in {"fetch", "translation", "model", "keywords"}} \cup
    {Body(c, "none", t, 1, FALSE) : c \in {"text", "url"}, t \in TextCases}

\* ImageInputForm: image and image_url are optional.
WebImageBodies ==
    {NoContent} \cup
    {Faulty("file", f) : f \in {"undecodable", "model"}} \cup
    {Faulty("url", f) : f \in {"fetch", "undecodable", "model"}} \cup
    {Body(c, "none", i, 1, FALSE) :
        c \in {"file", "url"}, i \in RequestImages}

\* video_classification_view reads only request.FILES['video'] and calls
\* analyze_video with frame_skip=50.
WebVideoBodies ==
    {NoContent} \cup
    {Faulty("file", "unopenable")} \cup
    {Body("file", "none", v, WebFrameSkip, FALSE) : v \in RequestVideos}

\* Whether a view gets as far as calling the classifier on a body with
\* content: not after a failed fetch or decode, which set error_message.
ViewReachesClassifier(kind, fault) ==
    CASE kind = "text" -> fault # "fetch"
      [] kind = "image" -> fault \in {"none", "model"}
      [] OTHER -> TRUE

\* The logged-in users of the classification views' requests: not the
\* key's owner, so that api_get_submission meets rows of another user.
Visitors == Users \ {KeyOwner}

\* text_classification_view, image_classification_view and
\* video_classification_view of the logged-in user share their shape: with
\* no content nothing is classified and error_message stays empty; a failed
\* step sets error_message; otherwise the submission is created.  The page
\* is rendered in every case.  An upload the form itself rejects counts as
\* an error shown to the user.
ViewClassify(kind, bodies) ==
    \E u \in Visitors, body \in bodies :
      LET present == body.content # "missing"
          creates == present /\ body.fault = "none"
          cats == IF creates THEN Categories(kind, body) ELSE {}
          row == ContentSubmission(
                     u, kind, cats, cats # {},
                     IF cats # {} THEN "pending_review" ELSE "auto_approved",
                     FALSE)
          subs2 == IF creates THEN Append(subs, row) ELSE subs
          error_message == present /\ body.fault # "none"
      IN  /\ creates => Len(subs) < MaxSubs
          /\ subs' = subs2
          /\ reply' = [admission |-> "session",
                       fault |-> InputFault(body),
                       code |-> 200, error |-> error_message,
                       classified |-> present /\ ViewReachesClassifier(kind, body.fault),
                       wrote |-> Wrote(key, billing, notifications, subs2),
                       submission |-> IF creates THEN Len(subs2) ELSE 0,
                       hook |-> "unsent", posts |-> 0, webhook_url |-> FALSE]
          /\ UNCHANGED <<second_key, payments, call, admitVars, meterVars, notifications, reviews, rpc, rloc>>

text_classification_view ==
    ViewClassify("text", WebTextBodies)
image_classification_view ==
    ViewClassify("image", WebImageBodies)
video_classification_view ==
    ViewClassify("video", WebVideoBodies)

\* APIKeyAdmin (admin.py 58-78): an administrator switches is_active.
APIKeyAdmin ==
    /\ key' = APIKey_save([key EXCEPT !.is_active = ~@])
    /\ UNCHANGED <<second_key, payments, call, reply, today, pc, snap, outcome, attempts, admitted, refused,
                   meterVars, notifications, lifeVars>>

\* APIKeyAdmin, fieldset 'Webhook Configuration': an administrator sets or
\* clears the key's webhook_url.
APIKeyAdminWebhook ==
    /\ key' = APIKey_save([key EXCEPT !.webhook_url = ~@])
    /\ UNCHANGED <<second_key, payments, call, reply, today, pc, snap, outcome, attempts, admitted, refused,
                   meterVars, notifications, lifeVars>>

(***************************************************************************)
(* Tiers (views.py 613-777, admin.py 58-78)                                *)
(***************************************************************************)
\* upgrade_api_key: a POST with a paid tier creates a pending Payment whose
\* description names the tier; any other tier is turned away.
upgrade_api_key ==
    /\ Len(payments) < MaxPayments
    /\ \E tier \in {"basic", "premium"} :
         payments' = Append(payments, [tier |-> tier, status |-> "pending"])
    /\ UNCHANGED <<second_key, call, reply, admitVars, meterVars, notifications, lifeVars>>

\* process_payment in test mode (STRIPE_TEST_MODE, True by default) on a
\* Payment that is not completed: the payment is completed, the key gets
\* the tier of the description, its limit, an active subscription and
\* requests_today = 0, and a billing Notification is created.
process_payment ==
    /\ Len(notifications) < MaxReceipts
    /\ \E i \in 1..Len(payments) :
         /\ payments[i].status # "completed"
         /\ payments' = [payments EXCEPT ![i].status = "completed"]
         /\ key' = APIKey_save(
                       [key EXCEPT !.tier = payments[i].tier,
                                   !.daily_limit = TIER_LIMITS[payments[i].tier],
                                   !.subscription_status = "active",
                                   !.requests_today = 0])
    /\ notifications' = Append(notifications, BillingNotice(KeyOwner))
    /\ UNCHANGED <<second_key, call, reply, today, pc, snap, outcome, attempts, admitted,
                   refused, meterVars, lifeVars>>

\* cancel_subscription: the key goes back to the free tier.
cancel_subscription ==
    /\ Len(notifications) < MaxReceipts
    /\ key' = APIKey_save([key EXCEPT !.tier = "free",
                                      !.daily_limit = 50,
                                      !.subscription_status = "cancelled"])
    /\ notifications' = Append(notifications, BillingNotice(KeyOwner))
    /\ UNCHANGED <<second_key, payments, call, reply, today, pc, snap, outcome, attempts,
                   admitted, refused, meterVars, lifeVars>>

\* APIKeyAdmin, fieldsets 'Tier & Status' and 'Rate Limiting': an
\* administrator submits the form with a tier of TIER_CHOICES and a
\* daily_limit of their choosing.
APIKeyAdminTier ==
    /\ \E tier \in DOMAIN TIER_LIMITS,
          limit \in {TIER_LIMITS[t] : t \in DOMAIN TIER_LIMITS} :
         key' = APIKey_save([key EXCEPT !.tier = tier, !.daily_limit = limit])
    /\ UNCHANGED <<second_key, payments, call, reply, today, pc, snap, outcome, attempts,
                   admitted, refused, meterVars, notifications, lifeVars>>

(***************************************************************************)
(* The classification endpoints in two steps (api_views.py 139-193,        *)
(* 219-287, 314-383): the handler of client c up to its call of            *)
(* send_webhook_notification, and from the return of requests.post to the  *)
(* Response.  snap[c] is response_data as built before the call.           *)
(***************************************************************************)
\* Up to "if submission.flagged and webhook_url": a handler that sends no
\* webhook returns its Response in the same step.
ApiClassifyUntilWebhook(c, kind, bodies) ==
    /\ \A d \in Clients : pc[d] = "idle"
    /\ \E presented \in Presented :
       \E body \in IF authenticate_api_key(key, presented, today).outcome = "admitted"
                   THEN bodies ELSE {NoContent} :
         LET auth == authenticate_api_key(key, presented, today)
             ok == auth.outcome = "admitted"
             usage == IF ok
                      THEN track_api_usage(billing, notifications, month)
                      ELSE [billing |-> billing, notifications |-> notifications]
             valid == ok /\ body.content # "missing"
             creates == valid /\ body.fault = "none"
             cats == IF creates THEN Categories(kind, body) ELSE {}
             row == ContentSubmission(
                        KeyOwner, kind, cats, cats # {},
                        IF cats # {} THEN "pending_review" ELSE "auto_approved",
                        TRUE)
             subs2 == IF creates THEN Append(subs, row) ELSE subs
             sends == creates /\ row.flagged /\ body.webhook_url
             code == IF ~ok THEN 401
                     ELSE IF ~valid THEN 400
                     ELSE IF ~creates THEN 500
                     ELSE 200
             response_data ==
                 [admission |-> auth.outcome, fault |-> InputFault(body),
                  code |-> code, error |-> code >= 400,
                  classified |-> valid /\ ReachesClassifier(kind, body.fault),
                  wrote |-> Wrote(auth.key, usage.billing,
                                  usage.notifications, subs2),
                  submission |-> IF creates THEN Len(subs2) ELSE 0,
                  hook |-> "unsent", posts |-> 0,
                  webhook_url |-> valid /\ body.webhook_url]
         IN  /\ presented = "valid" => attempts < MaxAttempts
             /\ ok => metered < MaxMetered
             /\ creates => Len(subs) < MaxSubs
             /\ key' = auth.key
             /\ outcome' = auth.outcome
             /\ attempts' = IF presented = "valid" THEN attempts + 1 ELSE attempts
             /\ admitted' = IF ok THEN admitted + 1 ELSE admitted
             /\ refused' = IF auth.outcome = "quota"
                           THEN refused \cup {today} ELSE refused
             /\ billing' = usage.billing
             /\ notifications' = usage.notifications
             /\ metered' = IF ok THEN metered + 1 ELSE metered
             /\ subs' = subs2
             /\ IF sends
                THEN /\ pc' = [pc EXCEPT ![c] = "posting"]
                     /\ snap' = [snap EXCEPT ![c] = response_data]
                     /\ UNCHANGED reply
                ELSE /\ reply' = response_data
                     /\ UNCHANGED <<pc, snap>>
    /\ UNCHANGED <<second_key, payments, call, today, month, reviews, rpc, rloc>>

\* requests.post has returned or raised inside send_webhook_notification;
\* the handler returns Response(response_data), or 500 if the call raised.
ApiClassifyRespond(c) ==
    /\ pc[c] = "posting"
    /\ \E post \in WebhookOutcomes :
         LET sent == send_webhook_notification(post)
         IN  reply' = [snap[c] EXCEPT !.hook = sent.hook,
                                     !.posts = sent.posts,
                                     !.code = IF sent.raised THEN 500 ELSE @,
                                     !.error = sent.raised]
    /\ pc' = [pc EXCEPT ![c] = "idle"]
    /\ snap' = [snap EXCEPT ![c] = NoRow]
    /\ UNCHANGED <<second_key, payments, call, today, key, outcome, attempts, admitted, refused,
                   meterVars, notifications, lifeVars>>

(***************************************************************************)
(* Calls of the classifier's functions on their own (classifier.py): call  *)
(* holds the arguments of the call made last and what it returned.         *)
(***************************************************************************)
\* Frames of a clip: one that classify_image fails on, and images with or
\* without an explicit detection under each label.
ClipLabels == Labels \cup {"weapons"}
ClipFrames ==
    {FailedFrame} \cup
    [detections : { <<>>,
                    <<[class |-> "FEMALE_BREAST_EXPOSED", score |-> 80]>> },
     label : ClipLabels]
\* The clips of up to MaxClip frames at the strides up to MaxClip and at
\* the default stride, and clips of 120 frames that are alike but for
\* frames 50 and 100 at the default stride (frame_skip=50, line 199).
LongClip == 120
ShortClips == UNION {[1..n -> ClipFrames] : n \in 0..MaxClip}
LongClips ==
    {[i \in 1..LongClip |->
         IF i = WebFrameSkip THEN f
         ELSE IF i = 2 * WebFrameSkip THEN g
         ELSE [detections |-> <<>>, label |-> "safe"]] :
     f \in ClipFrames, g \in ClipFrames}
ClipCalls ==
    (ShortClips \X (1..MaxClip \cup {WebFrameSkip}))
    \cup (LongClips \X {WebFrameSkip})

\* A call that has been made and has not returned.
Pending(fn, args) == [fn |-> fn, args |-> args, done |-> FALSE, result |-> NoRow]

\* The rest of the state while the classifier is called on its own.
CallInit ==
    /\ AdmitInit /\ MeterInit /\ LifeInit
    /\ reply = NoReply /\ payments = <<>>
    /\ second_key = NoRow

VideoInit ==
    /\ CallInit
    /\ call \in {Pending("analyze_video",
                          [frames |-> c[1], frame_skip |-> c[2]]) :
                  c \in ClipCalls}

\* analyze_video(video_path, frame_skip) returns: its return value, the
\* frame numbers standing for the entries of frame_results.
AnalyzeVideoCall ==
    /\ call # NoRow
    /\ call.fn = "analyze_video"
    /\ ~call.done
    /\ LET frames == call.args.frames
           frame_skip == call.args.frame_skip
       IN  call' = [call EXCEPT
                       !.done = TRUE,
                       !.result =
                           [frame_results |->
                                frame_results(frames, frame_skip, Len(frames)),
                            video_summary |->
                                analyze_video(frames, frame_skip)]]
    /\ UNCHANGED <<second_key, payments, reply, admitVars, meterVars, notifications, lifeVars>>

\* What analyze_video returns to the handler that holds the upload in call.
AnalysisResult ==
    [frame_results |->
         frame_results(call.args.frames, call.args.frame_skip,
                       Len(call.args.frames)),
     video_summary |-> analyze_video(call.args.frames, call.args.frame_skip)]

\* api_classify_video lines 348-366, after admission and metering, on the
\* upload and the frame_skip held in call: analyze_video returns and the
\* submission is created from its summary.
ApiClassifyVideoUpload ==
    /\ call # NoRow
    /\ call.fn = "analyze_video"
    /\ ~call.done
    /\ Len(subs) < MaxSubs
    /\ LET video_summary == AnalysisResult.video_summary
           video_categories == video_summary.dominant_categories
       IN  /\ call' = [call EXCEPT !.done = TRUE, !.result = AnalysisResult]
           /\ subs' = Append(subs, ContentSubmission(
                   KeyOwner, "video", Range(video_categories),
                   video_categories # <<>>,
                   IF video_categories # <<>>
                   THEN "pending_review" ELSE "auto_approved",
                   TRUE))
    /\ UNCHANGED <<second_key, payments, reply, admitVars, meterVars, notifications,
                   reviews, rpc, rloc>>

\* video_classification_view lines 280-305 of the logged-in user u on the
\* upload held in call; the view's stride is 50.
VideoClassificationViewUpload ==
    /\ call # NoRow
    /\ call.fn = "analyze_video"
    /\ ~call.done
    /\ call.args.frame_skip = WebFrameSkip
    /\ Len(subs) < MaxSubs
    /\ \E u \in Users :
         LET video_result == AnalysisResult.video_summary
             video_categories == video_result.dominant_categories
         IN  /\ call' = [call EXCEPT !.done = TRUE, !.result = AnalysisResult]
             /\ subs' = Append(subs, ContentSubmission(
                     u, "video", Range(video_categories),
                     video_categories # <<>>,
                     IF video_categories # <<>>
                     THEN "pending_review" ELSE "auto_approved",
                     FALSE))
    /\ UNCHANGED <<second_key, payments, reply, admitVars, meterVars, notifications,
                   reviews, rpc, rloc>>

\* Scores at each threshold of the rules and one hundredth above it, and
\* the threat of 75 with the identity attack of 45.
ScoreGrid ==
    {Scores(tox, sev, obs, ida, ins, thr, sex) :
        tox \in {5000, 5001, 6000, 6001, 7000, 7001},
        sev \in {4000, 4001},
        obs \in {3000, 3001},
        ida \in {4000, 4001, 4500, 5000, 5001},
        ins \in {5000, 5001, 7000, 7001},
        thr \in {5000, 5001, 6000, 6001, 7000, 7001, 7500},
        sex \in {2000, 2001}}
\* A text without a term of the lexicon and one with a term in capitals.
Texts ==
    { <<"h", "i">>,
      <<"B", "O", "M", "B", " ", "t", "h", "r", "e", "a", "t">> }

\* Two texts that the model scored alike.
TextInit ==
    /\ CallInit
    /\ call \in {Pending("map_detoxify_to_category",
                          [scores |-> sc, text |-> t, again |-> u]) :
                  sc \in ScoreGrid, t \in Texts, u \in Texts}

\* classify_text line 75: map_detoxify_to_category(scores, text) returns.
MapCall ==
    /\ call # NoRow
    /\ call.fn = "map_detoxify_to_category"
    /\ call.result = NoRow
    /\ call' = [call EXCEPT !.result =
                    [first |-> map_detoxify_to_category(call.args.scores,
                                                        call.args.text)]]
    /\ UNCHANGED <<second_key, payments, reply, admitVars, meterVars, notifications, lifeVars>>

\* classify_text line 75 on the other text with the same scores.
MapCallAgain ==
    /\ call # NoRow
    /\ call.fn = "map_detoxify_to_category"
    /\ call.result # NoRow
    /\ ~call.done
    /\ call' = [call EXCEPT
                    !.done = TRUE,
                    !.result =
                        [first |-> @.first,
                         second |-> map_detoxify_to_category(
                                        call.args.scores, call.args.again)]]
    /\ UNCHANGED <<second_key, payments, reply, admitVars, meterVars, notifications, lifeVars>>

\* Detections of two explicit classes and one that is not, with confidences
\* under, at and over the threshold.
Detections ==
    [class : {"FEMALE_BREAST_EXPOSED", "EXPOSED_BUTTOCKS", "FACE_FEMALE"},
     score : {79, 80, 81, 95}]
Images ==
    [detections : UNION {[1..n -> Detections] : n \in 0..MaxDetections},
     label : ClipLabels]

ImageInit ==
    /\ CallInit
    /\ call \in {Pending("classify_image", [image |-> img]) : img \in Images}

\* classify_image(image_input) returns: its categories list.
ClassifyImageCall ==
    /\ call # NoRow
    /\ call.fn = "classify_image"
    /\ ~call.done
    /\ call' = [call EXCEPT !.done = TRUE,
                            !.result = classify_image(call.args.image)]
    /\ UNCHANGED <<second_key, payments, reply, admitVars, meterVars, notifications, lifeVars>>

\* api_classify_image lines 236-267, after admission and metering, on the
\* image held in call: classify_image returns and the submission is created
\* from its categories.
ApiClassifyImageUpload ==
    /\ call # NoRow
    /\ call.fn = "classify_image"
    /\ ~call.done
    /\ Len(subs) < MaxSubs
    /\ LET image_categories == classify_image(call.args.image)
       IN  /\ call' = [call EXCEPT !.done = TRUE, !.result = image_categories]
           /\ subs' = Append(subs, ContentSubmission(
                   KeyOwner, "image", Range(image_categories),
                   image_categories # <<>>,
                   IF image_categories # <<>>
                   THEN "pending_review" ELSE "auto_approved",
                   TRUE))
    /\ UNCHANGED <<second_key, payments, reply, admitVars, meterVars, notifications,
                   reviews, rpc, rloc>>

\* image_classification_view lines 226-242 of the logged-in user u on the
\* image held in call.
ImageClassificationViewUpload ==
    /\ call # NoRow
    /\ call.fn = "classify_image"
    /\ ~call.done
    /\ Len(subs) < MaxSubs
    /\ \E u \in Users :
         LET image_categories == classify_image(call.args.image)
         IN  /\ call' = [call EXCEPT !.done = TRUE,
                                     !.result = image_categories]
             /\ subs' = Append(subs, ContentSubmission(
                     u, "image", Range(image_categories),
                     image_categories # <<>>,
                     IF image_categories # <<>>
                     THEN "pending_review" ELSE "auto_approved",
                     FALSE))
    /\ UNCHANGED <<second_key, payments, reply, admitVars, meterVars, notifications,
                   reviews, rpc, rloc>>

\* An image or a video is uploaded.
UploadInit ==
    /\ CallInit
    /\ call \in {Pending("classify_image", [image |-> img]) : img \in Images}
           \cup {Pending("analyze_video",
                          [frames |-> c[1], frame_skip |-> c[2]]) :
                  c \in ClipCalls}

\* Requests of the current day that were served before the first state.
Earlier == 48

\* The rows that Earlier requests leave which presented the valid key on
\* day 0 in month 0 with no content, within the daily limit and the free
\* allowance: each was admitted (increment_usage) and metered as a free
\* request (track_api_usage), none created a submission.
EarlierKey == [NewAPIKey(0) EXCEPT !.requests_today = Earlier]
EarlierBilling ==
    BillingRecord_save([NewBillingRecord EXCEPT
                            !.total_requests = Earlier,
                            !.free_requests_used = Earlier])

RequestsInit ==
    /\ today = 0
    /\ month = 0
    /\ key = EarlierKey
    /\ billing = [m \in 0..MaxMonth |-> IF m = 0 THEN EarlierBilling ELSE NoRow]
    /\ notifications = <<>>
    /\ attempts = Earlier
    /\ admitted = Earlier
    /\ metered = Earlier
    /\ outcome = "admitted"
    /\ refused = {}
    /\ pc = [c \in Clients |-> "idle"]
    /\ snap = [c \in Clients |-> NoRow]
    /\ LifeInit
    /\ reply = NoReply
    /\ call = NoRow
    /\ payments = <<>>
    /\ second_key = NoRow

Init ==
    /\ AdmitInit /\ MeterInit /\ LifeInit
    /\ reply = NoReply /\ call = NoRow /\ payments = <<>>
    /\ second_key = NoRow

\* Concurrent admission: the clients' steps interleave freely.
NextAdmit ==
    \/ \E c \in Clients : AuthLoad(c)
    \/ \E c \in Clients : AuthCheck(c)
    \/ \E c \in Clients : AuthIncrement(c)
    \/ NextDay

SpecAdmit == Init /\ [][NextAdmit]_vars

\* Admission with requests handled one at a time.
NextAdmitSeq ==
    \/ Authenticate
    \/ NextDay

SpecAdmitSeq == Init /\ [][NextAdmitSeq]_vars

\* Metering with calls handled one at a time.
NextMeter ==
    \/ Track
    \/ NextMonth

SpecMeter == Init /\ [][NextMeter]_vars

\* Metering within one billing period, the calls of the clients
\* interleaving freely.
NextMeterConc ==
    \/ \E c \in Clients : MeterLoad(c)
    \/ \E c \in Clients : MeterCount(c)
    \/ \E c \in Clients : MeterNotify(c)
    \/ \E c \in Clients : MeterSave(c)

SpecMeterConc == Init /\ [][NextMeterConc]_vars

Create ==
    \/ ApiClassifyText
    \/ ApiClassifyImage
    \/ ApiClassifyVideo
    \/ TextClassificationView
    \/ ImageClassificationView
    \/ VideoClassificationView

ReviewStep(r) ==
    \/ RevFind(r)
    \/ RevSaveSubmission(r)
    \/ RevSaveReview(r)
    \/ RevNotify(r)

\* Text submissions of the API and their reviews, the review_content
\* requests of the reviewers interleaving freely.
NextLife ==
    \/ ApiClassifyText
    \/ \E r \in Reviewers : RevLoad(r)
    \/ \E r \in Reviewers : ReviewStep(r)
    \/ \E r \in Reviewers : RevRefused(r)

SpecLife == Init /\ [][NextLife]_vars

\* Submissions and reviews, the review_content requests handled one at a
\* time.
NextLifeSeq ==
    \/ Create
    \/ \E r \in Reviewers : RevLoadAlone(r)
    \/ \E r \in Reviewers : ReviewStep(r)

SpecLifeSeq == Init /\ [][NextLifeSeq]_vars

\* The API endpoints, the classification views and the key's administrator,
\* one request at a time on one day.
NextRequests ==
    \/ api_classify_text
    \/ api_classify_image
    \/ api_classify_video
    \/ api_get_submission
    \/ text_classification_view
    \/ image_classification_view
    \/ video_classification_view
    \/ APIKeyAdmin

SpecRequests == RequestsInit /\ [][NextRequests]_vars

\* The classification endpoints of the API over the days of one month, one
\* request at a time.
NextApiDays ==
    \/ api_classify_text
    \/ api_classify_image
    \/ api_classify_video
    \/ NextDay

SpecApiDays == RequestsInit /\ [][NextApiDays]_vars

\* Text submissions of the key's owner and of the other users, and the
\* reads of api_get_submission with the one key.
NextRead ==
    \/ ApiClassifyText
    \/ TextClassificationView
    \/ ApiGetSubmissionCall

SpecRead == Init /\ [][NextRead]_vars

\* The text endpoint reached with either of the KeyOwner's two keys, one
\* request at a time on one day.
NextKeys ==
    \/ my_api_keys
    \/ api_classify_text
    \/ ApiClassifySecond("text", ApiTextBodies)

SpecKeys == RequestsInit /\ [][NextKeys]_vars

\* The classification endpoints of the API, one request at a time, and the
\* administrator who configures the key's webhook.
NextHooks ==
    \/ api_classify_text
    \/ api_classify_image
    \/ api_classify_video
    \/ APIKeyAdminWebhook

SpecHooks == RequestsInit /\ [][NextHooks]_vars

\* Text submissions and the review_content requests of every kind of
\* visitor, one at a time.
NextReviewAccess ==
    \/ ApiClassifyText
    \/ TextClassificationView
    \/ ReviewContent

SpecReviewAccess == Init /\ [][NextReviewAccess]_vars

\* The classification endpoints of the API, one request at a time, the
\* webhook POST of a request being a step of its own.
NextDelivery ==
    \/ \E c \in Clients : ApiClassifyUntilWebhook(c, "text", ApiTextBodies)
    \/ \E c \in Clients : ApiClassifyUntilWebhook(c, "image", ApiImageBodies)
    \/ \E c \in Clients : ApiClassifyUntilWebhook(c, "video", ApiVideoBodies)
    \/ \E c \in Clients : ApiClassifyRespond(c)

SpecDelivery == RequestsInit /\ [][NextDelivery]_vars

\* The key's tier within one day: upgrades, cancellations and edits in the
\* admin site among the requests that present the key, one at a time.
NextTier ==
    \/ Authenticate
    \/ upgrade_api_key
    \/ process_payment
    \/ cancel_subscription
    \/ APIKeyAdminTier

SpecTier == Init /\ [][NextTier]_vars

\* Calls of analyze_video.
NextVideo == AnalyzeVideoCall

SpecVideo == VideoInit /\ [][NextVideo]_vars

\* Calls of map_detoxify_to_category.
NextText ==
    \/ MapCall
    \/ MapCallAgain

SpecText == TextInit /\ [][NextText]_vars

\* Calls of classify_image.
NextImage == ClassifyImageCall

SpecImage == ImageInit /\ [][NextImage]_vars

\* Video uploads through the API and the web form, one per behaviour.
NextVideoUpload ==
    \/ ApiClassifyVideoUpload
    \/ VideoClassificationViewUpload

SpecVideoUpload == VideoInit /\ [][NextVideoUpload]_vars

\* Image and video uploads through the API and the web forms, one per
\* behaviour.
NextUpload ==
    \/ ApiClassifyImageUpload
    \/ ImageClassificationViewUpload
    \/ ApiClassifyVideoUpload
    \/ VideoClassificationViewUpload

SpecUpload == UploadInit /\ [][NextUpload]_vars

(***************************************************************************)
(* Properties of admission.                                                *)
(***************************************************************************)
Min(a, b) == IF a < b THEN a ELSE b
Max(a, b) == IF a > b THEN a ELSE b

\* C1: for a credential whose tier and daily_limit do not change, under
\* every interleaving of the concurrent requests that present it on one
\* calendar day, the number of requests authenticate_api_key admits on that
\* day never exceeds daily_limit.
C1_AdmittedWithinLimit == admitted <= key.daily_limit

\* C2: for a fresh credential with daily_limit L = 50 and requests handled
\* one at a time, on every day the first L requests are admitted and every
\* later one is refused with the quota error: the day's admissions are
\* min(requests, L), the day has a refusal exactly when more than L requests
\* were made, the counter of a day that had requests holds the admissions of
\* that day alone, and the next request passes the check exactly when fewer
\* than L were made, so that after a date rollover admission succeeds again
\* and counting restarts from 0.
C2_QuotaPerDay ==
    /\ key.daily_limit = 50
    /\ admitted = Min(attempts, 50)
    /\ (today \in refused) = (attempts > 50)
    /\ (outcome = "quota") => (\E d \in 0..today : d \in refused)
    /\ (attempts > 0) => /\ key.last_reset = today
                         /\ key.requests_today = admitted
    /\ can_make_request(key, today) = (attempts < 50)

\* C2: the credential was exhausted and refused on day 0, and on day 1 a
\* request has been admitted and the counter restarted at 1.
C2_Witness ==
    /\ today = 1
    /\ 0 \in refused
    /\ outcome = "admitted"
    /\ attempts = 1
    /\ key.requests_today = 1
    /\ key.last_reset = 1

(***************************************************************************)
(* Properties of metering.  Amounts are in ten-thousandths of a dollar:     *)
(* 0.01 is 100.                                                            *)
(***************************************************************************)
BillingNotices ==
    {i \in 1..Len(notifications) : notifications[i].notification_type = "billing"}

ReviewNotices(sid) ==
    {i \in 1..Len(notifications) :
        /\ notifications[i].notification_type = "review_complete"
        /\ notifications[i].related_submission = sid}

\* C4: every Submission, of whatever content kind and whether the API or a
\* web form creates it, is created in status auto_approved if and only if
\* its flagged is false and otherwise in pending_review, and so never in
\* approved or rejected.
C4_InitialStatus ==
    [][\A i \in DOMAIN subs' :
          i \notin DOMAIN subs =>
              subs'[i].status =
                  IF subs'[i].flagged THEN "pending_review" ELSE "auto_approved"]_vars

\* C4: a submission has been created unflagged and stands in auto_approved,
\* a status that only creation gives.
C4_Witness ==
    \E i \in DOMAIN subs :
        /\ subs[i].status = "auto_approved"
        /\ ~subs[i].flagged

\* C5: in every reachable state every persisted Submission, of every
\* content kind, has flagged true if and only if its detected categories are
\* not empty, also after review creations and review edits.
C5_FlaggedIffCategories ==
    \A i \in DOMAIN subs :
        subs[i].flagged = (subs[i].detected_categories # {})

\* C5: a flagged video submitted through a web form has been reviewed and
\* approved, and still has its flag and its categories.
C5_Witness ==
    \E i \in DOMAIN subs :
        /\ subs[i].content_type = "video"
        /\ ~subs[i].is_from_api
        /\ subs[i].status = "approved"
        /\ ReviewsOf(reviews, i) # {}
        /\ subs[i].flagged
        /\ subs[i].detected_categories # {}

\* C6: with the review requests handled one at a time, a Submission never
\* has more than one review Notification, and a review Notification is
\* addressed to the submitter of the Submission it references; when no
\* request is in flight, a Submission without a Review has no review
\* Notification, and one with a Review has the status its Review decides
\* and exactly one review Notification, however often the review was edited
\* afterwards.
C6_FirstReview ==
    \A sid \in DOMAIN subs :
        /\ Cardinality(ReviewNotices(sid)) <= 1
        /\ \A i \in ReviewNotices(sid) : notifications[i].user = subs[sid].user
        /\ Quiet =>
             IF ReviewsOf(reviews, sid) = {}
             THEN ReviewNotices(sid) = {}
             ELSE /\ Cardinality(ReviewNotices(sid)) = 1
                  /\ \A pk \in ReviewsOf(reviews, sid) :
                         subs[sid].status = reviews[pk].decision

\* C6: a flagged Submission was reviewed and approved, its one Notification
\* was sent, and a later edit of the review to rejected has saved the
\* Submission and is about to update the Review row.
C6_Witness ==
    \E r \in Reviewers :
        /\ rpc[r] = "save_review"
        /\ rloc[r].existing # 0
        /\ rloc[r].decision = "rejected"
        /\ reviews[rloc[r].existing].decision = "approved"
        /\ subs[rloc[r].sid].flagged
        /\ subs[rloc[r].sid].status = "rejected"
        /\ Cardinality(ReviewNotices(rloc[r].sid)) = 1

\* C7: under every interleaving of the review_content requests of the
\* reviewers, a Submission has at most one Review row and at most one review
\* Notification.
C7_OneReviewRow ==
    \A sid \in DOMAIN subs :
        /\ Cardinality(ReviewsOf(reviews, sid)) <= 1
        /\ Cardinality(ReviewNotices(sid)) <= 1

\* C7: two reviewers loaded the same Submission in pending_review and both
\* found no Review; one has inserted its Review and the INSERT of the other
\* has been refused.
C7_Witness ==
    \E r1, r2 \in Reviewers :
        /\ r1 # r2
        /\ rpc[r1] = "notify"
        /\ rpc[r2] = "refused"
        /\ rloc[r1].sid = rloc[r2].sid
        /\ rloc[r1].submission.status = "pending_review"
        /\ rloc[r2].submission.status = "pending_review"
        /\ Cardinality(ReviewsOf(reviews, rloc[r1].sid)) = 1

\* C8: in every reachable state, the states in which a review save is
\* part-way, interrupted or refused included, a Submission whose status is
\* approved or rejected has exactly one Review.
C8_DecidedHasOneReview ==
    \A sid \in DOMAIN subs :
        subs[sid].status \in {"approved", "rejected"} =>
            Cardinality(ReviewsOf(reviews, sid)) = 1

\* C9: a Review is created only for a Submission in pending_review: a
\* review_content request that has just inserted a Review had loaded the
\* Submission in status pending_review, never in auto_approved, approved or
\* rejected.
C9_ReviewOnlyOfPending ==
    \A r \in Reviewers :
        rpc[r] = "notify" => rloc[r].submission.status = "pending_review"

\* C10: the only status changes of a Submission are from pending_review to
\* approved and from pending_review to rejected; an approved, a rejected or
\* an auto_approved Submission keeps its status in every step.
C10_StatusMoves ==
    [][\A i \in DOMAIN subs :
          subs'[i].status # subs[i].status =>
              /\ subs[i].status = "pending_review"
              /\ subs'[i].status \in {"approved", "rejected"}]_vars

(***************************************************************************)
(* Properties of concurrent admission and metering.                        *)
(***************************************************************************)
\* No client has a request in flight.
ClientsIdle == \A c \in Clients : pc[c] = "idle"

\* The billing periods that have a Usage Record.
Periods == {m \in 0..MaxMonth : billing[m] # NoRow}

\* C11: for each billing period, over any interleaving of concurrent
\* track_api_usage calls, the billing Notification is emitted once and never
\* a second time: there are never more billing Notifications than periods
\* with a Usage Record.
C11_OneBillingNotice ==
    Cardinality(BillingNotices) <= Cardinality(Periods)

\* C12: under every interleaving of concurrent admitted requests on one
\* credential no increment of the daily counter is lost: once the counter
\* has been reset for the current day, requests_today equals the number of
\* requests admitted on that day.
C12_NoLostIncrement ==
    key.last_reset = today /\ admitted > 0 => key.requests_today = admitted

\* C13: under every interleaving of concurrent track_api_usage calls for
\* one period no update of the Usage Record is lost: when the n calls made
\* in the period have all finished, the record holds total_requests = n,
\* free_requests_used = min(n, 50) and paid_requests = max(n - 50, 0).
C13_NoLostUpdate ==
    ClientsIdle /\ metered > 0 =>
        /\ billing[month] # NoRow
        /\ billing[month].total_requests = metered
        /\ billing[month].free_requests_used = Min(metered, 50)
        /\ billing[month].paid_requests = Max(metered - 50, 0)

\* C14: every persisted Usage Record, under any interleaving of
\* track_api_usage calls, has
\* total_requests = free_requests_used + paid_requests.
C14_TotalIsSum ==
    \A m \in Periods :
        billing[m].total_requests =
            billing[m].free_requests_used + billing[m].paid_requests

\* C14: calls have raced and an update was lost, and the record, with a
\* paid request in it, is the consistent copy of one of them.
C14_Witness ==
    /\ ClientsIdle
    /\ billing[month] # NoRow
    /\ billing[month].total_requests < metered
    /\ billing[month].paid_requests = 1
    /\ billing[month].free_requests_used = 50

\* C15: in every persisted Usage Record the charge equals
\* paid_requests * cost_per_request, and is 0 when paid_requests is 0.
C15_ChargeIsProduct ==
    \A m \in Periods :
        /\ billing[m].amount_charged =
               billing[m].paid_requests * billing[m].cost_per_request
        /\ billing[m].paid_requests = 0 => billing[m].amount_charged = 0

\* C15: calculate_charges has saved the charge of a second paid request,
\* and the call has its final save still to do.
C15_Witness ==
    \E c \in Clients :
        /\ pc[c] = "billing_save"
        /\ billing[snap[c].period].paid_requests = 2
        /\ billing[snap[c].period].amount_charged = 2 * CostPerRequest

C17_MeteredOncePerAdmitted ==
    admitted = IF billing[month] = NoRow
               THEN 0 ELSE billing[month].total_requests

(***************************************************************************)
(* C18: a request whose admission is refused (no key, unknown or inactive  *)
(* key, quota exhausted) ends at once: the classifier is not called, no    *)
(* submission is created, and the key row, the usage records and every     *)
(* other table are left as they were.                                      *)
(***************************************************************************)
C18_RefusedDoesNothing ==
    reply.admission \in {"missing", "invalid", "quota"} =>
        /\ reply.code = 401
        /\ ~reply.classified
        /\ reply.submission = 0
        /\ reply.wrote = {}
        /\ reply.posts = 0

\* A request refused for quota, the counter standing at the limit.
C18_Witness ==
    /\ reply.admission = "quota"
    /\ key.requests_today = key.daily_limit
    /\ key.last_reset = today

(***************************************************************************)
(* C19: a request whose input is invalid or on which a classification step *)
(* fails gives its caller an error and persists no submission, on the API  *)
(* and on the web forms alike.                                             *)
(***************************************************************************)
C19_FaultGivesError ==
    reply.fault # "none" =>
        /\ reply.error
        /\ reply.submission = 0
        /\ "subs" \notin reply.wrote

(***************************************************************************)
(* C20: when the POST to the webhook fails, the caller gets the success    *)
(* response it gets when the POST is delivered, the submission stays       *)
(* persisted, flagged and pending review, and the POST is made once.       *)
(***************************************************************************)
C20_WebhookBestEffort ==
    reply.hook \in WebhookOutcomes =>
        /\ reply.code = 200
        /\ ~reply.error
        /\ reply.posts = 1
        /\ reply.submission \in 1..Len(subs)
        /\ subs[reply.submission].flagged
        /\ subs[reply.submission].status = "pending_review"

\* A flagged API submission whose webhook POST failed.
C20_Witness ==
    /\ reply.hook = "failed"
    /\ reply.code = 200
    /\ reply.submission \in 1..Len(subs)
    /\ subs[reply.submission].is_from_api

(***************************************************************************)
(* C21: when the API creates a submission, a webhook POST is attempted     *)
(* exactly when the submission is flagged and a webhook endpoint is        *)
(* supplied, by the key's configured webhook_url or by the request's       *)
(* webhook_url; never for an unflagged submission.                         *)
(***************************************************************************)
C21_WebhookWhenSupplied ==
    [][(Len(subs') = Len(subs) + 1 /\ subs'[Len(subs')].is_from_api) =>
           ((reply'.posts > 0) <=>
               (subs'[Len(subs')].flagged /\
                   (key.webhook_url \/ reply'.webhook_url)))]_vars

(***************************************************************************)
(* C22: the response of a request does not wait for the webhook POST: no   *)
(* handler is ever stopped inside the POST with its response still to be   *)
(* returned.                                                               *)
(***************************************************************************)
C22_ResponseNotHeld == \A c \in Clients : pc[c] # "posting"

\* analyze_video has returned.
IsVideoCall == call # NoRow /\ call.fn = "analyze_video" /\ call.done

\* The frame numbers that are multiples of n, up to len.
Multiples(n, len) == {i \in 1..len : \E k \in 1..len : i = k * n}

(***************************************************************************)
(* C23: analyze_video with stride N >= 1 classifies exactly the frames     *)
(* whose 1-based number is a multiple of N, in order (N = 50 on 120 frames *)
(* gives frames 50 and 100), and its dominant list has at most 3 entries.  *)
(***************************************************************************)
C23_SampledFrames ==
    IsVideoCall =>
        LET frames == call.args.frames
            N == call.args.frame_skip
            fr == call.result.frame_results
            summary == call.result.video_summary
            sampled == Multiples(N, Len(frames))
        IN  /\ summary.processed_frames = Cardinality(sampled)
            /\ Range(fr) = {i \in sampled : frames[i] # FailedFrame}
            /\ \A i, j \in 1..Len(fr) : i < j => fr[i] < fr[j]
            /\ Len(summary.dominant_categories) <= 3
            /\ (N = 50 /\ Len(frames) = 120) =>
                   /\ sampled = {50, 100}
                   /\ summary.processed_frames = 2

\* The clip of 120 frames at stride 50, frames 50 and 100 classified and
\* nothing else.
C23_Witness ==
    /\ IsVideoCall
    /\ Len(call.args.frames) = 120
    /\ call.args.frame_skip = 50
    /\ call.result.frame_results = <<50, 100>>

\* A clip whose sampled frames carry more than three categories.
C23_WitnessTruncated ==
    /\ IsVideoCall
    /\ Cardinality(DOMAIN call.result.video_summary.category_counts) > 3
    /\ Len(call.result.video_summary.dominant_categories) = 3
(***************************************************************************)
(* C24: a failure on one sampled frame does not abort analyze_video: the   *)
(* sampled frames after it are still classified, the summary is returned,  *)
(* and the failed frame contributes nothing to the category histogram.     *)
(***************************************************************************)
C24_FrameFailureSkipped ==
    IsVideoCall =>
        LET frames == call.args.frames
            sampled == Multiples(call.args.frame_skip, Len(frames))
            good == {i \in sampled : frames[i] # FailedFrame}
            counts == call.result.video_summary.category_counts
            carrying(c) == {i \in good : c \in Range(classify_image(frames[i]))}
        IN  /\ \A i \in sampled \ good : \A j \in good :
                   j > i => j \in Range(call.result.frame_results)
            /\ call.result.video_summary.total_frames = Len(frames)
            /\ DOMAIN counts =
                   UNION {Range(classify_image(frames[i])) : i \in good}
            /\ \A c \in DOMAIN counts : counts[c] = Cardinality(carrying(c))

\* A sampled frame failed and a sampled frame after it was classified and
\* counted.
C24_Witness ==
    /\ IsVideoCall
    /\ \E i, j \in Multiples(call.args.frame_skip, Len(call.args.frames)) :
          /\ i < j
          /\ call.args.frames[i] = FailedFrame
          /\ j \in Range(call.result.frame_results)
          /\ call.result.video_summary.category_counts # <<>>
(***************************************************************************)
(* C25: a video of which no frame is sampled (none of its frame numbers is *)
(* a multiple of the stride) gives an empty dominant list and a processed  *)
(* count of 0 without an error, and the submission made from it is         *)
(* unflagged and auto_approved.                                            *)
(***************************************************************************)
C25_NothingSampled ==
    (IsVideoCall /\ Multiples(call.args.frame_skip, Len(call.args.frames)) = {})
    => /\ call.result.video_summary.dominant_categories = <<>>
       /\ call.result.video_summary.processed_frames = 0
       /\ call.result.frame_results = <<>>
       /\ Len(subs) = 1
       /\ subs[1].content_type = "video"
       /\ ~subs[1].flagged
       /\ subs[1].status = "auto_approved"
       /\ subs[1].detected_categories = {}

\* An upload of at least one frame, all short of the stride, was analysed
\* and stored.
C25_Witness ==
    /\ IsVideoCall
    /\ Len(call.args.frames) > 0
    /\ Multiples(call.args.frame_skip, Len(call.args.frames)) = {}
    /\ Len(subs) = 1
\* map_detoxify_to_category has returned once, or twice.
IsTextCall == call # NoRow /\ call.fn = "map_detoxify_to_category"
TextReturned == IsTextCall /\ call.result # NoRow

\* "more than v percent" of a score counted in hundredths of a percent.
Over(score, v) == score > v * 100

\* The text holds a term of the lexicon, in whatever case.
NamesTerror(text) ==
    \E word \in terrorism_keywords :
        \E i \in 1..Len(text) :
            /\ i + Len(word) - 1 <= Len(text)
            /\ \A j \in 1..Len(word) : LowerChar(text[i + j - 1]) = word[j]

\* The categories of the threshold table for scores sc and a text.
Table(sc, text) ==
    {c \in {"Violence", "Terrorism", "Harassment", "Profanity", "Hate Speech",
            "Cyberbullying"} :
       CASE c = "Violence" ->
              Over(sc["Threat"], 60)
              \/ (Over(sc["Toxicity"], 70) /\ Over(sc["Severe Toxicity"], 40))
         [] c = "Terrorism" ->
              Over(sc["Threat"], 70) /\ Over(sc["Identity Attack"], 40)
              /\ NamesTerror(text)
         [] c = "Harassment" ->
              (Over(sc["Insult"], 50) \/ Over(sc["Identity Attack"], 50))
              /\ Over(sc["Toxicity"], 50) /\ Over(sc["Threat"], 50)
         [] c = "Profanity" ->
              Over(sc["Obscene"], 30) /\ Over(sc["Sexual Explicit"], 20)
         [] c = "Hate Speech" ->
              Over(sc["Identity Attack"], 50) /\ Over(sc["Toxicity"], 60)
         [] OTHER ->
              Over(sc["Insult"], 70) /\ Over(sc["Toxicity"], 50)}

(***************************************************************************)
(* C26: map_detoxify_to_category returns exactly the categories of the     *)
(* six-rule threshold table, every comparison strict, each category once;  *)
(* a threat of 75 and an identity attack of 45 on a text that names a bomb *)
(* threat give a set that holds Violence and Terrorism.                    *)
(***************************************************************************)
C26_ThresholdTable ==
    TextReturned =>
        /\ call.result.first = Table(call.args.scores, call.args.text)
        /\ (/\ call.args.scores["Threat"] = 7500
            /\ call.args.scores["Identity Attack"] = 4500
            /\ NamesTerror(call.args.text))
           => {"Violence", "Terrorism"} \subseteq call.result.first

\* The call of the example has returned, with no other rule met.
C26_Witness ==
    /\ TextReturned
    /\ call.args.scores["Threat"] = 7500
    /\ call.args.scores["Identity Attack"] = 4500
    /\ NamesTerror(call.args.text)
    /\ call.result.first = {"Violence", "Terrorism"}
\* Two texts with the same seven scores have been classified.
TextReturnedTwice == IsTextCall /\ call.done

(***************************************************************************)
(* C27 as stated: the category set is a strict function of the seven       *)
(* scores: two classifications with identical scores return the same set,  *)
(* whatever else differs.                                                  *)
(***************************************************************************)
C27_FunctionOfScores ==
    TextReturnedTwice => call.result.first = call.result.second

(***************************************************************************)
(* C27 as amended: the category set is a function of the seven scores and  *)
(* of whether the text holds a term of the Terrorism lexicon: two          *)
(* classifications with identical scores agree on every category other     *)
(* than Terrorism, and return the same set when their texts agree on       *)
(* holding a term.                                                         *)
(***************************************************************************)
C27_FunctionOfScoresAndLexicon ==
    TextReturnedTwice =>
        /\ call.result.first \ {"Terrorism"} = call.result.second \ {"Terrorism"}
        /\ (NamesTerror(call.args.text) <=> NamesTerror(call.args.again))
               => call.result.first = call.result.second

\* The same scores gave Terrorism for one text and not for the other.
C27_Witness ==
    /\ TextReturnedTwice
    /\ "Terrorism" \in call.result.first
    /\ "Terrorism" \notin call.result.second
    /\ call.result.first \ {"Terrorism"} = call.result.second
\* classify_image has returned.
IsImageCall == call # NoRow /\ call.fn = "classify_image" /\ call.done

(***************************************************************************)
(* C28: the categories of classify_image hold "Nudity" exactly when some   *)
(* detection has an explicit class with a confidence of at least 0.80      *)
(* (0.80 itself counts), and always hold the entry of the predicted label. *)
(***************************************************************************)
C28_NudityAtThreshold ==
    IsImageCall =>
        LET dets == call.args.image.detections
            cats == call.result
        IN  /\ (\E i \in 1..Len(cats) : cats[i] = "Nudity") <=>
                   (\E i \in 1..Len(dets) :
                        /\ dets[i].class \in
                              {"FEMALE_GENITALIA_EXPOSED",
                               "MALE_GENITALIA_EXPOSED",
                               "FEMALE_BREAST_EXPOSED", "EXPOSED_BUTTOCKS"}
                        /\ dets[i].score >= 80)
            /\ cats[Len(cats)] = DetectedCategory(call.args.image.label)
            /\ Cardinality({i \in 1..Len(cats) : cats[i] = "Nudity"}) <= 1

\* An image whose only explicit detection has a confidence of 0.80 exactly
\* was classified as Nudity.
C28_Witness ==
    /\ IsImageCall
    /\ \E i \in 1..Len(call.args.image.detections) :
          call.args.image.detections[i].class \in EXPLICIT_CLASSES
    /\ \A i \in 1..Len(call.args.image.detections) :
          call.args.image.detections[i].class \in EXPLICIT_CLASSES
              => call.args.image.detections[i].score = 80
    /\ call.result[1] = "Nudity"
(***************************************************************************)
(* C29: a failure of the keyword extraction inside classify_text never     *)
(* fails the request: an admitted request whose only fault is that one     *)
(* gets its verdict, not an error, and its submission is persisted.        *)
(***************************************************************************)
C29_KeywordFailureTolerated ==
    (reply.fault = "keywords" /\ reply.admission \in {"admitted", "session"})
    => /\ ~reply.error
       /\ reply.submission > 0
       /\ "subs" \in reply.wrote
(***************************************************************************)
(* C30: after any save of the credential (creation, upgrade through        *)
(* process_payment, cancel_subscription, or any other) its daily_limit is  *)
(* the ceiling of its tier: 50 for free, 1000 for basic, 10000 for         *)
(* premium.                                                                *)
(***************************************************************************)
C30_LimitFollowsTier ==
    /\ key.tier \in {"free", "basic", "premium"}
    /\ key.daily_limit = CASE key.tier = "free" -> 50
                            [] key.tier = "basic" -> 1000
                            [] OTHER -> 10000

\* A payment for the premium tier was completed and the key stands at
\* premium.
C30_Witness ==
    /\ key.tier = "premium"
    /\ key.subscription_status = "active"
    /\ \E i \in 1..Len(payments) :
          payments[i].tier = "premium" /\ payments[i].status = "completed"
(***************************************************************************)
(* C31: increment_usage on a credential whose last_reset is not today sets *)
(* requests_today to 1 and last_reset to today in the one save; on a       *)
(* credential whose last_reset is today it adds exactly 1 to               *)
(* requests_today and leaves last_reset alone; a request that only gets as *)
(* far as can_make_request changes neither the counter nor the reset date. *)
(***************************************************************************)
C31_IncrementFrame ==
    [][IF outcome' = "admitted" /\ attempts' = attempts + 1
       THEN IF key.last_reset # today
            THEN key' = [key EXCEPT !.requests_today = 1, !.last_reset = today]
            ELSE key' = [key EXCEPT !.requests_today = key.requests_today + 1]
       ELSE key' = key]_vars

\* The first request of a new day has been admitted on a key that was used
\* up the day before.
C31_Witness ==
    /\ today > 0
    /\ 0 \in refused
    /\ outcome = "admitted"
    /\ key.last_reset = today
    /\ key.requests_today = 1
\* The rows of the submissions that exist before and after a step agree.
SameStatuses(before, after) ==
    \A i \in DOMAIN before : after[i].status = before[i].status

GoodFrames ==
    {i \in Multiples(call.args.frame_skip, Len(call.args.frames)) :
        call.args.frames[i] # FailedFrame}
Carrying(c) ==
    {i \in GoodFrames : c \in Range(classify_image(call.args.frames[i]))}

\* Category c was seen before category d: in an earlier frame, or earlier
\* in the categories of the same frame.
SeenBefore(c, d) ==
    LET fc == CHOOSE i \in Carrying(c) : \A j \in Carrying(c) : i <= j
        fd == CHOOSE i \in Carrying(d) : \A j \in Carrying(d) : i <= j
        cats == classify_image(call.args.frames[fc])
    IN  \/ fc < fd
        \/ /\ fc = fd
           /\ \E i, j \in 1..Len(cats) : i < j /\ cats[i] = c /\ cats[j] = d

\* Category c ranks before category d: it was counted more often, or as
\* often and seen first.
RanksBefore(c, d) ==
    \/ Cardinality(Carrying(c)) > Cardinality(Carrying(d))
    \/ /\ Cardinality(Carrying(c)) = Cardinality(Carrying(d))
       /\ SeenBefore(c, d)

(***************************************************************************)
(* C33: the dominant categories of the video summary are the (at most) 3   *)
(* categories counted most often over the frames classified, most frequent *)
(* first, equally frequent ones in the order they were first seen; the     *)
(* histogram holds the count of every category seen.                       *)
(***************************************************************************)
C33_TopThree ==
    IsVideoCall =>
        LET summary == call.result.video_summary
            top == summary.dominant_categories
            seen == UNION {Range(classify_image(call.args.frames[i])) :
                              i \in GoodFrames}
        IN  /\ DOMAIN summary.category_counts = seen
            /\ \A c \in seen :
                   summary.category_counts[c] = Cardinality(Carrying(c))
            /\ Len(top) = Min(3, Cardinality(seen))
            /\ Range(top) \subseteq seen
            /\ \A i, j \in 1..Len(top) : i < j => RanksBefore(top[i], top[j])
            /\ \A c \in seen \ Range(top) :
                   \A i \in 1..Len(top) : RanksBefore(top[i], c)

\* Four categories were counted: the one counted twice leads although it
\* was seen after the second, the second and the third were counted once
\* and stand in the order they were seen, and the fourth is left out.
C33_Witness ==
    /\ IsVideoCall
    /\ Cardinality(DOMAIN call.result.video_summary.category_counts) = 4
    /\ LET top == call.result.video_summary.dominant_categories
           counts == call.result.video_summary.category_counts
       IN  /\ Len(top) = 3
           /\ counts[top[1]] = 2
           /\ counts[top[2]] = 1
           /\ counts[top[3]] = 1
           /\ SeenBefore(top[2], top[1])
           /\ SeenBefore(top[2], top[3])
(***************************************************************************)
(* C34: with requests handled one at a time, requests_today <= daily_limit *)
(* holds after every admitted request, tier changes included: once a       *)
(* downgrade has put daily_limit at or below requests_today, no request is *)
(* admitted any more on that day.                                          *)
(***************************************************************************)
C34_WithinLimitAtAdmission ==
    [][/\ (outcome' = "admitted" /\ attempts' = attempts + 1)
              => key'.requests_today <= key'.daily_limit
       /\ (key.last_reset = today /\ key.requests_today >= key.daily_limit)
              => admitted' = admitted /\ key'.requests_today <= key.requests_today
      ]_vars

\* After a downgrade to the free tier the counter stands above the limit,
\* and a request has been refused.
C34_Witness ==
    /\ key.tier = "free"
    /\ key.subscription_status = "cancelled"
    /\ key.requests_today > key.daily_limit
    /\ outcome = "quota"
(***************************************************************************)
(* C35: whenever a Submission has a Review, the Submission's status is     *)
(* that Review's decision, in every reachable state and under every        *)
(* interleaving of concurrent review_content requests for the Submission.  *)
(***************************************************************************)
C35_StatusIsDecision ==
    \A sid \in DOMAIN subs :
        \A pk \in ReviewsOf(reviews, sid) :
            subs[sid].status = reviews[pk].decision

\* The upload held in call is a video of which a sampled frame was
\* classified.
VideoWithGoodFrame ==
    /\ call # NoRow
    /\ call.fn = "analyze_video"
    /\ GoodFrames # {}

(***************************************************************************)
(* C36: every submission created from an image is flagged and starts in    *)
(* pending_review, never in auto_approved, and so does every submission    *)
(* created from a video of which at least one sampled frame was classified.*)
(***************************************************************************)
C36_ImageAlwaysPending ==
    \A sid \in DOMAIN subs :
        (\/ subs[sid].content_type = "image"
         \/ subs[sid].content_type = "video" /\ VideoWithGoodFrame)
        => /\ subs[sid].flagged
           /\ subs[sid].status = "pending_review"

\* An image with no explicit detection and the label "safe" was submitted.
C36_Witness ==
    /\ IsImageCall
    /\ call.args.image.detections = <<>>
    /\ call.args.image.label = "safe"
    /\ Len(subs) = 1
    /\ subs[1].content_type = "image"
    /\ subs[1].status = "pending_review"

\* A video with one classified frame and one failed frame was submitted.
C36_WitnessVideo ==
    /\ VideoWithGoodFrame
    /\ \E i \in Multiples(call.args.frame_skip, Len(call.args.frames)) :
          call.args.frames[i] = FailedFrame
    /\ Len(subs) = 1
    /\ subs[1].content_type = "video"
    /\ subs[1].status = "pending_review"

\* total_requests of the month's Usage Record in rows, 0 without a record.
TotalOf(rows) == IF rows[month] = NoRow THEN 0 ELSE rows[month].total_requests
\* paid_requests of the month's Usage Record in rows, 0 without a record.
PaidOf(rows) == IF rows[month] = NoRow THEN 0 ELSE rows[month].paid_requests

(***************************************************************************)
(* C37: the daily counter and the month's Usage Record are charged before  *)
(* the input is validated and classified: an admitted API request whose    *)
(* validation or classification fails still adds one to requests_today and *)
(* one to total_requests (as a free or as a paid request), answers with an *)
(* error and creates no submission.                                        *)
(***************************************************************************)
C37_ChargedBeforeValidation ==
    [][(/\ attempts' = attempts + 1
        /\ reply'.admission = "admitted"
        /\ reply'.fault # "none")
       => /\ key'.requests_today =
                 (IF key.last_reset = today THEN key.requests_today ELSE 0) + 1
          /\ TotalOf(billing') = TotalOf(billing) + 1
          /\ billing'[month].free_requests_used + billing'[month].paid_requests
                 = TotalOf(billing')
          /\ PaidOf(billing') \in {PaidOf(billing), PaidOf(billing) + 1}
          /\ reply'.code \in {400, 500}
          /\ subs' = subs]_vars

\* The first request of the next day is the 51st of the month: it fails on
\* a missing input after the two before it failed too, and is charged as
\* the first paid request.
C37_Witness ==
    /\ reply.admission = "admitted"
    /\ reply.fault = "missing"
    /\ reply.code = 400
    /\ subs = <<>>
    /\ today = 1
    /\ key.last_reset = 1
    /\ key.requests_today = 1
    /\ TotalOf(billing) = FreeAllowance + 1
    /\ PaidOf(billing) = 1

\* The submission with this id belongs to the owner of the key.
OwnSubmission(sid) == sid \in DOMAIN subs /\ subs[sid].user = KeyOwner

(***************************************************************************)
(* C38: api_get_submission answers 200 with a submission only when the     *)
(* submission belongs to the user who owns the presented key; an admitted  *)
(* request for any other id, of another user's submission or of none, is   *)
(* answered 404 and returns nothing.  The read changes no submission.      *)
(***************************************************************************)
C38_ReadsOwnOnly ==
    [][(/\ attempts' = attempts + 1
        /\ call' # NoRow
        /\ call'.fn = "api_get_submission")
       => LET sid == call'.args.submission_id
          IN  /\ call'.result.code = 200 =>
                     OwnSubmission(sid) /\ reply'.submission = sid
              /\ (reply'.admission = "admitted" /\ ~OwnSubmission(sid)) =>
                     call'.result.code = 404 /\ reply'.submission = 0
              /\ (reply'.admission = "admitted" /\ OwnSubmission(sid)) =>
                     call'.result.code = 200
              /\ subs' = subs]_vars

\* The key's owner asked for a submission of another user and got 404.
C38_Witness ==
    /\ call # NoRow
    /\ call.fn = "api_get_submission"
    /\ call.args.presented = "valid"
    /\ call.args.submission_id \in DOMAIN subs
    /\ subs[call.args.submission_id].user # KeyOwner
    /\ reply.admission = "admitted"
    /\ call.result.code = 404
    /\ reply.submission = 0

\* The key's owner asked for a submission of their own and got it.
C38_WitnessOwn ==
    /\ call # NoRow
    /\ call.fn = "api_get_submission"
    /\ OwnSubmission(call.args.submission_id)
    /\ call.result.code = 200
    /\ reply.submission = call.args.submission_id

\* requests_today of a key row on the current day, 0 for a key that does
\* not exist or has served no request today.
ServedToday(k) ==
    IF k = NoRow \/ k.last_reset # today THEN 0 ELSE k.requests_today

C40_TerrorismImpliesViolence ==
    /\ TextReturned =>
           ("Terrorism" \in call.result.first
               => "Violence" \in call.result.first)
    /\ TextReturnedTwice =>
           ("Terrorism" \in call.result.second
               => "Violence" \in call.result.second)

\* A text named Terrorism whose Violence comes from the threat score alone,
\* just above 70, the toxicity rule of Violence not being met.
C40_Witness ==
    /\ TextReturned
    /\ call.args.scores["Threat"] = 7001
    /\ call.args.scores["Toxicity"] <= 7000
    /\ "Terrorism" \in call.result.first
    /\ "Violence" \in call.result.first

====
